---- MODULE Spec2Model ----
(***************************************************************************)
(* A model of hydra (src/hydra.py): one command fanned out to many hosts   *)
(* over SSH with asyncio.  Two state machines are modelled:                *)
(*                                                                         *)
(*  - one call of retry_connect (variables call*, specification SpecConn), *)
(*    drawn over every max_retries and every sequence of attempt outcomes; *)
(*  - one run of main() under asyncio.run (specification Spec): the event  *)
(*    loop's FIFO ready queue, the execute task and the print_output task  *)
(*    of every host, the task wait_for makes of each connection attempt,   *)
(*    the gather callbacks, and the shutdown of the loop.                  *)
(*                                                                         *)
(* Pure functions are exercised one call at a time over bounded inputs:    *)
(* get_prompt (SpecPalette), get_ssh_keys (SpecKeys), the width computation *)
(* of execute (SpecWidth), and the loop body of print_output with           *)
(* clean_ansi_codes (SpecText), and get_hosts (SpecHosts).  SpecCapture is  *)
(* a run in capture mode with stdout recorded line by line, over what the  *)
(* hosts write, allow_empty_line, COLOR and the remote width.              *)
(*                                                                         *)
(* Each action is the code a task runs between two suspension points.  An  *)
(* await of asyncssh (conn.run, the process's __aenter__ and __aexit__,    *)
(* the read of a line) may complete at once, suspend the task, or wake it  *)
(* and suspend it again.                                                   *)
(* Host names are distinct: a host is identified with its name.            *)
(***************************************************************************)
EXTENDS Integers, Sequences, FiniteSets

\* ------------------------------------------------------------ bounds
NumHosts == 2
MaxLines == 2
MaxRetriesBound == 3
NumNames == 7
OutLines == 2
MaxWidth == 1
MaxDisplayWidth == 12
MaxNameLength == 8
MaxText == 3
MaxRows == 3

\* establish_ssh_connection's default max_retries, the value execute() uses
DefaultMaxRetries == 2

\* COLORS holds six colour codes
NumColors == 6

Hosts == 1..NumHosts
\* the host names get_prompt is asked about; the hosts of a run are among them
Names == 1..NumNames

VARIABLES
    call_max_retries,   \* retry_connect's max_retries argument
    call,               \* the state of the one retry_connect call
    call_log,           \* ghost: the attempts made, <<algorithms used, outcome>>
    separate_output,    \* -S: capture mode when TRUE, stream mode when FALSE
    ready,              \* the event loop's FIFO of handles to run
    batch,              \* handles left to run in the current loop iteration
    stopping,           \* loop.stop() was called
    loop,               \* "running" | "cancelling" | "closed"
    mainPc,             \* main(): "await_gather" | "done" | "raised"
    outer,              \* gather's outer future: "pending" | "result" | "exception"
    nfinished,          \* gather's count of finished children
    pc,                 \* execute(h): where the task is suspended
    rc,                 \* execute(h): the state of its retry_connect call
    nlines,             \* execute(h): lines streamed so far
    sess,               \* the host's session: "none" | "open" | "closed"
    ran,                \* ghost: the command was started on the host
    fin,                \* ghost: how execute(h) ended ("none": it has not)
    inflight,           \* execute(h) suspended in __aexit__ of the process:
                        \* how the body of the async with ended
    att,                \* the task wait_for made of asyncssh.connect for h:
                        \* "none" | "pending" | "stopping" (cancel() was
                        \* called on it) | "completed" | "cancelled"
    xcancel,            \* execute(h) in wait_for or cancelled by asyncio.run:
                        \* "tmo_wait" the timeout fired and wait_for waits
                        \* for the attempt it cancelled; "thrown" task.cancel()
                        \* was called and CancelledError is due at its await;
                        \* "waiting" CancelledError is due after the wait
                        \* for the cancelled attempt; else "none"
    pcancel,            \* print_output(h): task.cancel() was called on it
    agather,            \* the attempt task of h is one of the tasks
                        \* asyncio.run cancelled and it has not ended
    npending,           \* the cancelled tasks asyncio.run still waits for
    ppc,                \* print_output(h): "start" | "waiting" | "stopped" | "cancelled"
    getters,            \* OUTPUT_QUEUES[h]._getters holds the printer's getter
    queue,              \* OUTPUT_QUEUES[h]
    pushed,             \* ghost: everything ever put on the host's queue, in order
    printed,            \* ghost: the chunks the printer handled, in order
    screen,             \* ghost: the lines printed on stdout, in order
    watch,              \* ghost: screen is recorded in this run
    args,               \* main()'s allow_empty_line (-A) and execute()'s
                        \* remote_width, the same for every host
    stdout,             \* what the command writes on the host's terminal
    COLOR,              \* the global COLOR: FALSE under --no-color
    HOST_COLOR,         \* the global HOST_COLOR: name -> colour, None if absent
    draws,              \* the number of next(COLORS_CYCLE) calls made so far
    first_color,        \* ghost: the colour of the first prompt made for a name
    exec_prompt,        \* execute(h): its local prompt
    end_color,          \* execute(h): the colour of its local end_marker
    print_prompt,       \* print_output(h): its local prompt
    ret,                \* the prompt the last direct get_prompt call returned
    keys_in,            \* get_ssh_keys: key_path, default_key, the files on disk
    keys_out,           \* get_ssh_keys: what the call gave, KeysIdle before it
    width_in,           \* execute(): local_display_width and max_name_length
    width_out,          \* execute(): remote_width and the length of ending_line
    text_in,            \* print_output: the item got and allow_empty_line
    text_out,           \* print_output: the lines cleaned and the lines printed
    hosts_in,           \* get_hosts: host_file, host_tags and the file's rows
    hosts_out           \* get_hosts: what the call returned and printed

callVars == <<call_max_retries, call, call_log>>
loopVars == <<ready, batch, stopping, loop>>
mainVars == <<mainPc, outer, nfinished>>
execVars == <<pc, rc, nlines, sess, ran, fin, att, inflight>>
argVars == <<watch, args, stdout>>
printVars == <<ppc, getters, queue, pushed, printed, screen, argVars>>
cancelVars == <<xcancel, pcancel, agather, npending>>
colorVars == <<COLOR, HOST_COLOR, draws, first_color>>
promptVars == <<exec_prompt, end_color, print_prompt>>
keysVars == <<keys_in, keys_out>>
widthVars == <<width_in, width_out>>
textVars == <<text_in, text_out>>
hostsVars == <<hosts_in, hosts_out>>
fnVars == <<ret, keysVars, widthVars, textVars, hostsVars>>
runVars ==
    <<separate_output, loopVars, mainVars, execVars, printVars, cancelVars>>
vars == <<callVars, fnVars, colorVars, promptVars, runVars>>

\* ------------------------------------------------------------ retry_connect
\* What one awaited asyncssh.connect under wait_for can deliver: a session,
\* asyncio.TimeoutError, an asyncssh.Error whose code is
\* DISC_KEY_EXCHANGE_FAILED, another asyncssh.Error, or an exception that is
\* neither (asyncssh.connect raises OSError when the socket cannot connect).
AttemptOutcomes == {"ok", "timeout", "kex", "ssh_error", "os_error"}

NoError == [kind |-> "none", at |-> 0]
NoExc == [type |-> "none", addr |-> FALSE, timeout |-> FALSE,
          kind |-> "none", embeds |-> NoError]

\* the state of a call before its first attempt
RetryStart ==
    [attempt |-> 0, algo |-> "narrowed", last_error |-> NoError,
     status |-> "trying", exc |-> NoExc]

RetryIdle == [RetryStart EXCEPT !.status = "idle"]

NextAlgoAnyError(algo, kind) == "full"
\* algorithm_options after an attempt failed with `kind`
NextAlgo(algo, kind) == IF kind = "kex" THEN "full" ELSE algo

LastErrorFirstOnly(prev, kind, attempt) ==
    IF prev.kind = "none" THEN [kind |-> kind, at |-> attempt] ELSE prev
\* last_error = error
LastError(prev, kind, attempt) == [kind |-> kind, at |-> attempt]

\* the raise after the for loop
RaiseAfterLoop(c) ==
    IF c.last_error.kind = "timeout"
    THEN [c EXCEPT !.status = "raised",
                   !.exc = [type |-> "ConnectionError", addr |-> TRUE,
                            timeout |-> TRUE, kind |-> "timeout",
                            embeds |-> NoError]]
    ELSE [c EXCEPT !.status = "raised",
                   !.exc = [type |-> "ConnectionError", addr |-> TRUE,
                            timeout |-> FALSE, kind |-> c.last_error.kind,
                            embeds |-> c.last_error]]

MayRetryOffByOne(attempt, max_retries) == attempt <= max_retries
\* attempt < max_retries: another iteration of the for loop follows
MayRetry(attempt, max_retries) == attempt < max_retries

\* the body of the for loop once the awaited attempt has an outcome
RetryOutcome(c, o, max_retries) ==
    IF o = "ok" THEN [c EXCEPT !.status = "connected"]
    ELSE IF o = "os_error"
    THEN [c EXCEPT !.status = "raised",
                   !.exc = [type |-> "OSError", addr |-> FALSE,
                            timeout |-> FALSE, kind |-> "os_error",
                            embeds |-> NoError]]
    ELSE LET c2 == [c EXCEPT !.last_error = LastError(@, o, c.attempt),
                             !.algo = NextAlgo(@, o)]
         IN  IF MayRetry(c.attempt, max_retries)
             THEN [c2 EXCEPT !.status = "sleeping"]
             ELSE RaiseAfterLoop(c2)

\* asyncio.sleep(1) is over: the next iteration awaits its attempt
RetrySleepDone(c) == [c EXCEPT !.attempt = @ + 1, !.status = "trying"]

\* ------------------------------------------------------------ one call
CallAttempt(o) ==
    /\ call.status = "trying"
    /\ call_log' = Append(call_log, [algo |-> call.algo, outcome |-> o])
    /\ call' = RetryOutcome(call, o, call_max_retries)
    /\ UNCHANGED <<call_max_retries, fnVars, colorVars, promptVars, runVars>>

CallSleep ==
    /\ call.status = "sleeping"
    /\ call' = RetrySleepDone(call)
    /\ UNCHANGED <<call_max_retries, call_log, fnVars, colorVars, promptVars,
                   runVars>>

\* ------------------------------------------------------------ chunks
\* A queue item.  src is the host whose task produced it (ghost), names the
\* host its text names (0: none), n the line number of a streamed line.
Chunk(kind, src, names, n) == [kind |-> kind, src |-> src, names |-> names, n |-> n]
\* output = await execute_command(...): the whole stdout
Out(h) == Chunk("out", h, 0, 0)
\* line = line.rstrip(): the i-th line of process.stdout
Line(h, i) == Chunk("line", h, 0, i)
\* f"Error connecting to {host_name}: {error}"
DiagConn(h) == Chunk("diag_conn", h, h, 0)
\* f"Error executing command on {host_name}: {error}"
DiagExec(h) == Chunk("diag_exec", h, h, 0)
\* f"Error executing command: {error}", put by stream_command_output
DiagStream(h) == Chunk("diag_stream", h, 0, 0)
\* end_marker
EndMarker(h) == Chunk("end", h, 0, 0)
\* None
Close == Chunk("close", 0, 0, 0)

\* the first n lines of the host's command, in the order it writes them
RECURSIVE Lines(_, _)
Lines(h, n) == IF n = 0 THEN <<>> ELSE Append(Lines(h, n - 1), Line(h, n))

NoConnectionErrorChunks(h) == <<>>
\* except ConnectionError: what execute() puts
ConnectionErrorChunks(h) == <<DiagConn(h)>>

\* except RuntimeError: what execute() puts
RuntimeErrorChunks(h) == <<DiagExec(h)>>

NoFinallyChunks(h) == <<>>
\* finally: what execute() puts
FinallyChunks(h) == <<EndMarker(h)>>

\* ------------------------------------------------------------ colours
\* shuffle(COLORS) leaves the six codes in some order, once each: a colour is
\* named by its place 1..NumColors in the shuffled list, None is no colour
None == 0

NextColorStuck(d) == 1
\* next(COLORS_CYCLE) when d draws were made before
NextColor(d) == (d % NumColors) + 1

NeedsColorAlways(hc, n) == TRUE
\* HOST_COLOR.get(host_name) is None
NeedsColor(hc, n) == hc[n] = None

\* a prompt: the colour code and the host name it shows
Prompt(c, n) == [color |-> c, host |-> n]
NoPrompt == Prompt(None, 0)

\* get_prompt(host_name, max_name_length): the map and the number of draws
\* afterwards, and the prompt returned
GetPrompt(hc, d, n, color) ==
    IF color
    THEN LET draw == NeedsColor(hc, n)
             hc2 == IF draw THEN [hc EXCEPT ![n] = NextColor(d)] ELSE hc
         IN  [map |-> hc2, draws |-> IF draw THEN d + 1 ELSE d,
              prompt |-> Prompt(hc2[n], n)]
    ELSE [map |-> hc, draws |-> d, prompt |-> Prompt(None, n)]

\* the colour of end_marker: HOST_COLOR.get(host_name) if COLOR
EndMarkerColor(hc, n, color) == IF color THEN hc[n] ELSE None

\* ghost: the colour of the first prompt made for a name is remembered
FirstColor(fc, n, prompt) ==
    IF fc[n] = None THEN [fc EXCEPT ![n] = prompt.color] ELSE fc

\* a test calls get_prompt directly
GetPromptCall(n) ==
    LET g == GetPrompt(HOST_COLOR, draws, n, COLOR) IN
    /\ HOST_COLOR' = g.map
    /\ draws' = g.draws
    /\ ret' = g.prompt
    /\ first_color' = FirstColor(first_color, n, g.prompt)
    /\ UNCHANGED <<callVars, keysVars, widthVars, textVars, hostsVars, COLOR,
                   promptVars, runVars>>

\* ------------------------------------------------------------ get_ssh_keys
\* Python's None as an argument
Absent == "None"
\* `if x:` for an Optional[str]
Truthy(x) == x # Absent /\ x # ""

CommonKeysRsaFirst == <<"id_rsa", "id_ed25519", "id_ecdsa", "id_dsa">>
\* common_keys, under ~/.ssh
CommonKeys == <<"id_ed25519", "id_rsa", "id_ecdsa", "id_dsa">>

\* the values the host file and -K give
KeyPathValues == {Absent, "", "#", "/keys/host"}
DefaultKeyValues == {Absent, "", "/keys/default"}
\* the common keys that may exist on disk
DiskValues == SUBSET {CommonKeys[i] : i \in 1..Len(CommonKeys)}

KeysIdle == [keys |-> <<>>, error |-> "idle", checked |-> <<>>]

\* get_ssh_keys(key_path, default_key) with the files `disk` present: the list
\* returned, the exception raised, and the paths os.path.exists was asked
GetSshKeys(key_path, default_key, disk) ==
    IF Truthy(key_path) /\ key_path # "#"
    THEN [keys |-> <<key_path>>, error |-> "none", checked |-> <<>>]
    ELSE IF Truthy(default_key)
    THEN [keys |-> <<default_key>>, error |-> "none", checked |-> <<>>]
    ELSE LET OnDisk(k) == k \in disk
             available_keys == SelectSeq(CommonKeys, OnDisk)
         IN  IF available_keys = <<>>
             THEN [keys |-> <<>>, error |-> "ConnectionError",
                   checked |-> CommonKeys]
             ELSE [keys |-> available_keys, error |-> "none",
                   checked |-> CommonKeys]

GetSshKeysCall ==
    /\ keys_out = KeysIdle
    /\ keys_out' = GetSshKeys(keys_in.key_path, keys_in.default_key, keys_in.disk)
    /\ UNCHANGED <<callVars, ret, keys_in, widthVars, textVars, hostsVars,
                   colorVars, promptVars, runVars>>

\* ------------------------------------------------------------ remote width
\* remote_width = local_display_width - max_name_length - 3
RemoteWidth(local_display_width, max_name_length) ==
    local_display_width - max_name_length - 3

\* len("-" * remote_width): a str times a number below 1 is empty
EndingLineLength(remote_width) == IF remote_width > 0 THEN remote_width ELSE 0

WidthIdle == [remote_width |-> 0, term_width |-> 0, ending |-> 0, done |-> FALSE]

\* the top of execute(): the width given to execute_command or
\* stream_command_output (COLUMNS= and term_size) and the end-marker's length
WidthCall ==
    /\ ~width_out.done
    /\ LET remote_width == RemoteWidth(width_in.local_display_width,
                                       width_in.max_name_length)
       IN  width_out' = [remote_width |-> remote_width,
                         term_width |-> remote_width,
                         ending |-> EndingLineLength(remote_width),
                         done |-> TRUE]
    /\ UNCHANGED <<callVars, ret, keysVars, width_in, textVars, hostsVars,
                   colorVars, promptVars, runVars>>

\* ------------------------------------------------------------ printed text
\* A text is a sequence of tokens: "a" a visible character, " " a blank,
\* "CRLF" the pair \r\n, and the escape sequences "EL" \x1b[K, "EL2" \x1b[2K,
\* "CNL" \x1b[1E,
\* "CPL" \x1b[1F, "HIDE" \x1b[?25l, "SHOW" \x1b[?25h, "CUU" \x1b[1A,
\* "SGR" \x1b[31m and "RESET" \x1b[0m.  "PROMPT" is the prompt up to its last
\* character, which is a blank.
EscapeTokens ==
    {"EL", "EL2", "CNL", "CPL", "HIDE", "SHOW", "CUU", "SGR", "RESET"}
\* the tokens a host's output is drawn from
TextTokens ==
    {"a", " ", "CRLF", "EL", "EL2", "CNL", "CPL", "HIDE", "SHOW", "CUU", "SGR"}
\* str.isspace
Whitespace == {" ", "CRLF"}

\* the prompt get_prompt returns, as tokens
PromptText == <<"PROMPT", " ">>
\* the prompt of a host whose name ends with \x1b[1F\x1b[?25l: "PROMPT" is
\* the prompt up to these, "a" what stands between them and the blank
PromptCursor == <<"PROMPT", "CPL", "HIDE", "a", " ">>
\* the prompts print_output is exercised with
Prompts == {PromptText, PromptCursor}

\* output.replace("\x1b[K", "\x1b[K\r\n")
RECURSIVE BreakAfterErase(_)
BreakAfterErase(t) ==
    IF t = <<>> THEN <<>>
    ELSE (IF Head(t) = "EL" THEN <<"EL", "CRLF">> ELSE <<Head(t)>>)
             \o BreakAfterErase(Tail(t))

\* output.split("\r\n"): acc holds the lines closed, cur the open one
RECURSIVE SplitLines(_, _, _)
SplitLines(t, acc, cur) ==
    IF t = <<>> THEN Append(acc, cur)
    ELSE IF Head(t) = "CRLF" THEN SplitLines(Tail(t), Append(acc, cur), <<>>)
    ELSE SplitLines(Tail(t), acc, Append(cur, Head(t)))

\* str.rstrip()
RECURSIVE RStrip(_)
RStrip(t) ==
    IF t # <<>> /\ t[Len(t)] \in Whitespace
    THEN RStrip(SubSeq(t, 1, Len(t) - 1)) ELSE t

\* str.lstrip()
RECURSIVE LStrip(_)
LStrip(t) == IF t # <<>> /\ Head(t) \in Whitespace THEN LStrip(Tail(t)) ELSE t

\* str.strip()
Strip(t) == LStrip(RStrip(t))

\* str.replace(k, by), k one escape sequence
RECURSIVE Replace(_, _, _)
Replace(t, k, by) ==
    IF t = <<>> THEN <<>>
    ELSE (IF Head(t) = k THEN by ELSE <<Head(t)>>) \o Replace(Tail(t), k, by)

\* the four replace calls of clean_ansi_codes, one after the other
CleanTokens(line, prompt) ==
    LET line1 == Replace(line, "CNL", <<"CNL">> \o prompt)
        line2 == Replace(line1, "CPL", <<"CPL">> \o prompt)
        line3 == Replace(line2, "HIDE", <<>>)
    IN  Replace(line3, "SHOW", <<>>)

\* line.startswith("\x1b[")
StartsWithEscape(line) == line # <<>> /\ Head(line) \in EscapeTokens

\* clean_ansi_codes(line, prompt)
clean_ansi_codes(line, prompt) ==
    RStrip(IF StartsWithEscape(line) THEN CleanTokens(line, prompt) ELSE line)

KeepAll(allow_empty_line, cleaned_line) == TRUE
\* if allow_empty_line or cleaned_line.strip()
Keep(allow_empty_line, cleaned_line) ==
    allow_empty_line \/ Strip(cleaned_line) # <<>>

\* print(f"{prompt}{cleaned_line}{RESET}")
PrintedLine(prompt, cleaned_line) == prompt \o cleaned_line \o <<"RESET">>

\* the for loop of print_output over the lines: what is printed
RECURSIVE PrintLines(_, _, _)
PrintLines(lines, prompt, allow_empty_line) ==
    IF lines = <<>> THEN <<>>
    ELSE LET cleaned_line == clean_ansi_codes(Head(lines), prompt)
         IN  (IF Keep(allow_empty_line, cleaned_line)
              THEN <<PrintedLine(prompt, cleaned_line)>> ELSE <<>>)
                 \o PrintLines(Tail(lines), prompt, allow_empty_line)

\* the lines of an item, each cleaned
RECURSIVE CleanLines(_, _)
CleanLines(lines, prompt) ==
    IF lines = <<>> THEN <<>>
    ELSE <<clean_ansi_codes(Head(lines), prompt)>>
             \o CleanLines(Tail(lines), prompt)

TextIdle == [lines |-> <<>>, cleaned |-> <<>>, printed |-> <<>>, done |-> FALSE]

\* the body of print_output's loop for one item that is not None
PrintOutputCall ==
    /\ ~text_out.done
    /\ LET lines == SplitLines(BreakAfterErase(text_in.output), <<>>, <<>>)
       IN  text_out' = [lines |-> lines,
                        cleaned |-> CleanLines(lines, text_in.prompt),
                        printed |-> PrintLines(lines, text_in.prompt,
                                               text_in.allow_empty_line),
                        done |-> TRUE]
    /\ UNCHANGED <<callVars, ret, keysVars, widthVars, text_in, hostsVars,
                   colorVars, promptVars, runVars>>

\* ------------------------------------------------------------ get_hosts
\* A hosts file is the sequence of rows csv.reader yields, a row a sequence
\* of fields, a field a sequence of characters; a blank line is the row <<>>.
\* A printable ASCII character is written as itself, any other character as
\* "U+" and its code point.
\* The decimal digits of Unicode (category Nd), one script a row, from the
\* digit zero to the digit nine
DigitRows ==
    << <<"0", "1", "2", "3", "4", "5", "6", "7", "8", "9">>,
       <<"U+0660", "U+0661", "U+0662", "U+0663", "U+0664", "U+0665", "U+0666", "U+0667", "U+0668", "U+0669">>,
       <<"U+06F0", "U+06F1", "U+06F2", "U+06F3", "U+06F4", "U+06F5", "U+06F6", "U+06F7", "U+06F8", "U+06F9">>,
       <<"U+07C0", "U+07C1", "U+07C2", "U+07C3", "U+07C4", "U+07C5", "U+07C6", "U+07C7", "U+07C8", "U+07C9">>,
       <<"U+0966", "U+0967", "U+0968", "U+0969", "U+096A", "U+096B", "U+096C", "U+096D", "U+096E", "U+096F">>,
       <<"U+09E6", "U+09E7", "U+09E8", "U+09E9", "U+09EA", "U+09EB", "U+09EC", "U+09ED", "U+09EE", "U+09EF">>,
       <<"U+0A66", "U+0A67", "U+0A68", "U+0A69", "U+0A6A", "U+0A6B", "U+0A6C", "U+0A6D", "U+0A6E", "U+0A6F">>,
       <<"U+0AE6", "U+0AE7", "U+0AE8", "U+0AE9", "U+0AEA", "U+0AEB", "U+0AEC", "U+0AED", "U+0AEE", "U+0AEF">>,
       <<"U+0B66", "U+0B67", "U+0B68", "U+0B69", "U+0B6A", "U+0B6B", "U+0B6C", "U+0B6D", "U+0B6E", "U+0B6F">>,
       <<"U+0BE6", "U+0BE7", "U+0BE8", "U+0BE9", "U+0BEA", "U+0BEB", "U+0BEC", "U+0BED", "U+0BEE", "U+0BEF">>,
       <<"U+0C66", "U+0C67", "U+0C68", "U+0C69", "U+0C6A", "U+0C6B", "U+0C6C", "U+0C6D", "U+0C6E", "U+0C6F">>,
       <<"U+0CE6", "U+0CE7", "U+0CE8", "U+0CE9", "U+0CEA", "U+0CEB", "U+0CEC", "U+0CED", "U+0CEE", "U+0CEF">>,
       <<"U+0D66", "U+0D67", "U+0D68", "U+0D69", "U+0D6A", "U+0D6B", "U+0D6C", "U+0D6D", "U+0D6E", "U+0D6F">>,
       <<"U+0DE6", "U+0DE7", "U+0DE8", "U+0DE9", "U+0DEA", "U+0DEB", "U+0DEC", "U+0DED", "U+0DEE", "U+0DEF">>,
       <<"U+0E50", "U+0E51", "U+0E52", "U+0E53", "U+0E54", "U+0E55", "U+0E56", "U+0E57", "U+0E58", "U+0E59">>,
       <<"U+0ED0", "U+0ED1", "U+0ED2", "U+0ED3", "U+0ED4", "U+0ED5", "U+0ED6", "U+0ED7", "U+0ED8", "U+0ED9">>,
       <<"U+0F20", "U+0F21", "U+0F22", "U+0F23", "U+0F24", "U+0F25", "U+0F26", "U+0F27", "U+0F28", "U+0F29">>,
       <<"U+1040", "U+1041", "U+1042", "U+1043", "U+1044", "U+1045", "U+1046", "U+1047", "U+1048", "U+1049">>,
       <<"U+1090", "U+1091", "U+1092", "U+1093", "U+1094", "U+1095", "U+1096", "U+1097", "U+1098", "U+1099">>,
       <<"U+17E0", "U+17E1", "U+17E2", "U+17E3", "U+17E4", "U+17E5", "U+17E6", "U+17E7", "U+17E8", "U+17E9">>,
       <<"U+1810", "U+1811", "U+1812", "U+1813", "U+1814", "U+1815", "U+1816", "U+1817", "U+1818", "U+1819">>,
       <<"U+1946", "U+1947", "U+1948", "U+1949", "U+194A", "U+194B", "U+194C", "U+194D", "U+194E", "U+194F">>,
       <<"U+19D0", "U+19D1", "U+19D2", "U+19D3", "U+19D4", "U+19D5", "U+19D6", "U+19D7", "U+19D8", "U+19D9">>,
       <<"U+1A80", "U+1A81", "U+1A82", "U+1A83", "U+1A84", "U+1A85", "U+1A86", "U+1A87", "U+1A88", "U+1A89">>,
       <<"U+1A90", "U+1A91", "U+1A92", "U+1A93", "U+1A94", "U+1A95", "U+1A96", "U+1A97", "U+1A98", "U+1A99">>,
       <<"U+1B50", "U+1B51", "U+1B52", "U+1B53", "U+1B54", "U+1B55", "U+1B56", "U+1B57", "U+1B58", "U+1B59">>,
       <<"U+1BB0", "U+1BB1", "U+1BB2", "U+1BB3", "U+1BB4", "U+1BB5", "U+1BB6", "U+1BB7", "U+1BB8", "U+1BB9">>,
       <<"U+1C40", "U+1C41", "U+1C42", "U+1C43", "U+1C44", "U+1C45", "U+1C46", "U+1C47", "U+1C48", "U+1C49">>,
       <<"U+1C50", "U+1C51", "U+1C52", "U+1C53", "U+1C54", "U+1C55", "U+1C56", "U+1C57", "U+1C58", "U+1C59">>,
       <<"U+A620", "U+A621", "U+A622", "U+A623", "U+A624", "U+A625", "U+A626", "U+A627", "U+A628", "U+A629">>,
       <<"U+A8D0", "U+A8D1", "U+A8D2", "U+A8D3", "U+A8D4", "U+A8D5", "U+A8D6", "U+A8D7", "U+A8D8", "U+A8D9">>,
       <<"U+A900", "U+A901", "U+A902", "U+A903", "U+A904", "U+A905", "U+A906", "U+A907", "U+A908", "U+A909">>,
       <<"U+A9D0", "U+A9D1", "U+A9D2", "U+A9D3", "U+A9D4", "U+A9D5", "U+A9D6", "U+A9D7", "U+A9D8", "U+A9D9">>,
       <<"U+A9F0", "U+A9F1", "U+A9F2", "U+A9F3", "U+A9F4", "U+A9F5", "U+A9F6", "U+A9F7", "U+A9F8", "U+A9F9">>,
       <<"U+AA50", "U+AA51", "U+AA52", "U+AA53", "U+AA54", "U+AA55", "U+AA56", "U+AA57", "U+AA58", "U+AA59">>,
       <<"U+ABF0", "U+ABF1", "U+ABF2", "U+ABF3", "U+ABF4", "U+ABF5", "U+ABF6", "U+ABF7", "U+ABF8", "U+ABF9">>,
       <<"U+FF10", "U+FF11", "U+FF12", "U+FF13", "U+FF14", "U+FF15", "U+FF16", "U+FF17", "U+FF18", "U+FF19">>,
       <<"U+104A0", "U+104A1", "U+104A2", "U+104A3", "U+104A4", "U+104A5", "U+104A6", "U+104A7", "U+104A8", "U+104A9">>,
       <<"U+10D30", "U+10D31", "U+10D32", "U+10D33", "U+10D34", "U+10D35", "U+10D36", "U+10D37", "U+10D38", "U+10D39">>,
       <<"U+11066", "U+11067", "U+11068", "U+11069", "U+1106A", "U+1106B", "U+1106C", "U+1106D", "U+1106E", "U+1106F">>,
       <<"U+110F0", "U+110F1", "U+110F2", "U+110F3", "U+110F4", "U+110F5", "U+110F6", "U+110F7", "U+110F8", "U+110F9">>,
       <<"U+11136", "U+11137", "U+11138", "U+11139", "U+1113A", "U+1113B", "U+1113C", "U+1113D", "U+1113E", "U+1113F">>,
       <<"U+111D0", "U+111D1", "U+111D2", "U+111D3", "U+111D4", "U+111D5", "U+111D6", "U+111D7", "U+111D8", "U+111D9">>,
       <<"U+112F0", "U+112F1", "U+112F2", "U+112F3", "U+112F4", "U+112F5", "U+112F6", "U+112F7", "U+112F8", "U+112F9">>,
       <<"U+11450", "U+11451", "U+11452", "U+11453", "U+11454", "U+11455", "U+11456", "U+11457", "U+11458", "U+11459">>,
       <<"U+114D0", "U+114D1", "U+114D2", "U+114D3", "U+114D4", "U+114D5", "U+114D6", "U+114D7", "U+114D8", "U+114D9">>,
       <<"U+11650", "U+11651", "U+11652", "U+11653", "U+11654", "U+11655", "U+11656", "U+11657", "U+11658", "U+11659">>,
       <<"U+116C0", "U+116C1", "U+116C2", "U+116C3", "U+116C4", "U+116C5", "U+116C6", "U+116C7", "U+116C8", "U+116C9">>,
       <<"U+11730", "U+11731", "U+11732", "U+11733", "U+11734", "U+11735", "U+11736", "U+11737", "U+11738", "U+11739">>,
       <<"U+118E0", "U+118E1", "U+118E2", "U+118E3", "U+118E4", "U+118E5", "U+118E6", "U+118E7", "U+118E8", "U+118E9">>,
       <<"U+11950", "U+11951", "U+11952", "U+11953", "U+11954", "U+11955", "U+11956", "U+11957", "U+11958", "U+11959">>,
       <<"U+11C50", "U+11C51", "U+11C52", "U+11C53", "U+11C54", "U+11C55", "U+11C56", "U+11C57", "U+11C58", "U+11C59">>,
       <<"U+11D50", "U+11D51", "U+11D52", "U+11D53", "U+11D54", "U+11D55", "U+11D56", "U+11D57", "U+11D58", "U+11D59">>,
       <<"U+11DA0", "U+11DA1", "U+11DA2", "U+11DA3", "U+11DA4", "U+11DA5", "U+11DA6", "U+11DA7", "U+11DA8", "U+11DA9">>,
       <<"U+16A60", "U+16A61", "U+16A62", "U+16A63", "U+16A64", "U+16A65", "U+16A66", "U+16A67", "U+16A68", "U+16A69">>,
       <<"U+16AC0", "U+16AC1", "U+16AC2", "U+16AC3", "U+16AC4", "U+16AC5", "U+16AC6", "U+16AC7", "U+16AC8", "U+16AC9">>,
       <<"U+16B50", "U+16B51", "U+16B52", "U+16B53", "U+16B54", "U+16B55", "U+16B56", "U+16B57", "U+16B58", "U+16B59">>,
       <<"U+1D7CE", "U+1D7CF", "U+1D7D0", "U+1D7D1", "U+1D7D2", "U+1D7D3", "U+1D7D4", "U+1D7D5", "U+1D7D6", "U+1D7D7">>,
       <<"U+1D7D8", "U+1D7D9", "U+1D7DA", "U+1D7DB", "U+1D7DC", "U+1D7DD", "U+1D7DE", "U+1D7DF", "U+1D7E0", "U+1D7E1">>,
       <<"U+1D7E2", "U+1D7E3", "U+1D7E4", "U+1D7E5", "U+1D7E6", "U+1D7E7", "U+1D7E8", "U+1D7E9", "U+1D7EA", "U+1D7EB">>,
       <<"U+1D7EC", "U+1D7ED", "U+1D7EE", "U+1D7EF", "U+1D7F0", "U+1D7F1", "U+1D7F2", "U+1D7F3", "U+1D7F4", "U+1D7F5">>,
       <<"U+1D7F6", "U+1D7F7", "U+1D7F8", "U+1D7F9", "U+1D7FA", "U+1D7FB", "U+1D7FC", "U+1D7FD", "U+1D7FE", "U+1D7FF">>,
       <<"U+1E140", "U+1E141", "U+1E142", "U+1E143", "U+1E144", "U+1E145", "U+1E146", "U+1E147", "U+1E148", "U+1E149">>,
       <<"U+1E2F0", "U+1E2F1", "U+1E2F2", "U+1E2F3", "U+1E2F4", "U+1E2F5", "U+1E2F6", "U+1E2F7", "U+1E2F8", "U+1E2F9">>,
       <<"U+1E950", "U+1E951", "U+1E952", "U+1E953", "U+1E954", "U+1E955", "U+1E956", "U+1E957", "U+1E958", "U+1E959">>,
       <<"U+1FBF0", "U+1FBF1", "U+1FBF2", "U+1FBF3", "U+1FBF4", "U+1FBF5", "U+1FBF6", "U+1FBF7", "U+1FBF8", "U+1FBF9">> >>

\* the rows that hold the character c
DigitRowsOf(c) ==
    {r \in 1..Len(DigitRows) : \E v \in 1..10 : DigitRows[r][v] = c}

\* the characters int() reads as a decimal digit
Digits == {DigitRows[r][v] : r \in 1..Len(DigitRows), v \in 1..10}

\* Py_UNICODE_TODECIMAL
DigitValue(c) ==
    LET r == CHOOSE r \in DigitRowsOf(c) : TRUE
    IN  (CHOOSE v \in 1..10 : DigitRows[r][v] = c) - 1

RECURSIVE DigitsValue(_)
DigitsValue(d) ==
    IF d = <<>> THEN 0
    ELSE 10 * DigitsValue(SubSeq(d, 1, Len(d) - 1)) + DigitValue(d[Len(d)])

\* the characters int() skips before and after the number: those of
\* str.isspace but the separators U+001C to U+001F
IntSpace ==
    {"U+0009", "U+000A", "U+000B", "U+000C", "U+000D", " ", "U+0085",
     "U+00A0", "U+1680", "U+2000", "U+2001", "U+2002", "U+2003", "U+2004",
     "U+2005", "U+2006", "U+2007", "U+2008", "U+2009", "U+200A", "U+2028",
     "U+2029", "U+202F", "U+205F", "U+3000"}

RECURSIVE TrimBlanks(_)
TrimBlanks(f) ==
    IF f # <<>> /\ Head(f) \in IntSpace THEN TrimBlanks(Tail(f))
    ELSE IF f # <<>> /\ f[Len(f)] \in IntSpace
    THEN TrimBlanks(SubSeq(f, 1, Len(f) - 1))
    ELSE f

\* the digits of a number, its underscores left out
NoUnderscore(c) == c # "_"

\* sys.get_int_max_str_digits(): the digits int() converts at most
IntMaxStrDigits == 4300

\* int(field): white space around the number, a sign before it and single
\* underscores between its digits are accepted; ok is FALSE where int raises
\* ValueError: the field is no number, or it has more digits than the
\* interpreter converts
IntOf(f) ==
    LET s == TrimBlanks(f)
        signed == s # <<>> /\ s[1] \in {"+", "-"}
        d == IF signed THEN Tail(s) ELSE s
        ok == /\ d # <<>>
              /\ \A i \in 1..Len(d) :
                    \/ d[i] \in Digits
                    \/ d[i] = "_" /\ 1 < i /\ i < Len(d) /\ d[i + 1] # "_"
              /\ Len(SelectSeq(d, NoUnderscore)) <= IntMaxStrDigits
    IN  [ok |-> ok,
         value |-> IF ~ok THEN 0
                   ELSE IF signed /\ s[1] = "-"
                   THEN 0 - DigitsValue(SelectSeq(d, NoUnderscore))
                   ELSE DigitsValue(SelectSeq(d, NoUnderscore))]

\* str.split(sep) with a one-character sep: "" gives [""]
RECURSIVE SplitAcc(_, _, _, _)
SplitAcc(f, sep, acc, cur) ==
    IF f = <<>> THEN Append(acc, cur)
    ELSE IF Head(f) = sep THEN SplitAcc(Tail(f), sep, Append(acc, cur), <<>>)
    ELSE SplitAcc(Tail(f), sep, acc, Append(cur, Head(f)))

Split(f, sep) == SplitAcc(f, sep, <<>>, <<>>)

Elements(seq) == {seq[i] : i \in 1..Len(seq)}

\* host_tags: None is [given |-> FALSE], a string is given with its text
NoTags == [given |-> FALSE, text |-> <<>>]
Tags(text) == [given |-> TRUE, text |-> text]

\* execute_tags = host_tags.split(",") if host_tags else []
ExecuteTags(host_tags) ==
    IF host_tags.given /\ host_tags.text # <<>>
    THEN Split(host_tags.text, ",") ELSE <<>>

\* how the try block over a non-empty row ends
RowOutcome(row) ==
    IF Len(row) < 3 THEN "IndexError"
    ELSE IF ~IntOf(row[3]).ok THEN "ValueError"
    ELSE IF Len(row) < 4 THEN "IndexError"
    ELSE "else"

KeyPath(row) == IF Len(row) > 4 THEN row[5] ELSE <<>>
RowTags(row) == IF Len(row) > 5 THEN row[6] ELSE <<>>

\* host_tags is None or set(tags.split(":")).intersection(set(execute_tags))
Selected(host_tags, tags) ==
    \/ ~host_tags.given
    \/ Elements(Split(tags, ":")) \cap Elements(ExecuteTags(host_tags)) # {}

\* host_name.startswith("#")
StartsWithHash(host_name) == host_name # <<>> /\ host_name[1] = "#"

HostTuple(row) == <<row[1], row[2], IntOf(row[3]).value, row[4], KeyPath(row)>>

ParseError(host_file, row_line) == [file |-> host_file, row |-> row_line]

\* the loop over csv.reader(hosts)
RECURSIVE ReadRows(_, _, _, _, _, _)
ReadRows(rows, host_file, host_tags, row_line, hosts_to_execute, out) ==
    IF rows = <<>>
    THEN [hosts |-> hosts_to_execute, out |-> out]
    ELSE
        LET row == Head(rows)
            line == row_line + 1
        IN
        IF row = <<>>
        THEN ReadRows(Tail(rows), host_file, host_tags, row_line,
                      hosts_to_execute, out)
        ELSE IF RowOutcome(row) = "IndexError"
        THEN ReadRows(Tail(rows), host_file, host_tags, line,
                      hosts_to_execute, out)
        ELSE IF RowOutcome(row) = "ValueError"
        THEN ReadRows(Tail(rows), host_file, host_tags, line,
                      hosts_to_execute,
                      Append(out, ParseError(host_file, line)))
        ELSE IF Selected(host_tags, RowTags(row)) /\ ~StartsWithHash(row[1])
        THEN ReadRows(Tail(rows), host_file, host_tags, line,
                      Append(hosts_to_execute, HostTuple(row)), out)
        ELSE ReadRows(Tail(rows), host_file, host_tags, line,
                      hosts_to_execute, out)

RECURSIVE LongestName(_)
LongestName(hosts) ==
    IF hosts = <<>> THEN 0
    ELSE LET rest == LongestName(Tail(hosts))
             here == Len(Head(hosts)[1])
         IN  IF here > rest THEN here ELSE rest

GetHosts(host_file, host_tags, rows) ==
    LET read == ReadRows(rows, host_file, host_tags, 0, <<>>, <<>>)
    IN  IF read.hosts # <<>>
        THEN [hosts |-> read.hosts,
              max_name_length |-> LongestName(read.hosts),
              printed |-> read.out]
        ELSE [hosts |-> <<>>, max_name_length |-> 0, printed |-> read.out]

HostsIdle ==
    [hosts |-> <<>>, max_name_length |-> 0, printed |-> <<>>, done |-> FALSE]

\* the rows the files are made of: a blank line, a comment line, hosts with
\* and without tags, a commented-out host, a host with a bad port, a row
\* with two fields only, a comment line with commas and no number in it, a
\* host whose port is "\t\u0662_2\xa0" (22), a host whose port is "2_"
HostRows ==
    { <<>>,
      << <<"#", " ", "n">> >>,
      << <<"a">>, <<"i">>, <<"2", "2">>, <<"u">>, <<"k">>, <<"w", ":", "d">> >>,
      << <<"b", "b">>, <<"i">>, <<"2", "0">>, <<"u">>, <<"#">>, <<"w">> >>,
      << <<"c", "c", "c">>, <<"i">>, <<"2", "2">>, <<"u">>, <<"k">>, <<"a">> >>,
      << <<"d", "d">>, <<"i">>, <<"2", "2">>, <<"u">>, <<"#">> >>,
      << <<"#", "e">>, <<"i">>, <<"2", "2">>, <<"u">>, <<"#">>, <<"w">> >>,
      << <<"f">>, <<"i">>, <<"2", "x">>, <<"u">>, <<"#">>, <<"w">> >>,
      << <<"g">>, <<"i">> >>,
      << <<"#", "h">>, <<"i">>, <<"x">>, <<"u">> >>,
      << <<"j">>, <<"i">>, <<"U+0009", "U+0662", "_", "2", "U+00A0">>, <<"u">> >>,
      << <<"k">>, <<"i">>, <<"2", "_">>, <<"u">> >> }

HostFiles == {"hosts.csv", "lab.csv"}

\* -t is absent, or is "", "w", "d,a", "x", "w,"
HostTagsValues ==
    {NoTags, Tags(<<>>), Tags(<<"w">>), Tags(<<"d", ",", "a">>),
     Tags(<<"x">>), Tags(<<"w", ",">>)}

GetHostsCall ==
    /\ ~hosts_out.done
    /\ LET got == GetHosts(hosts_in.host_file, hosts_in.host_tags,
                           hosts_in.rows)
       IN  hosts_out' = [hosts |-> got.hosts,
                         max_name_length |-> got.max_name_length,
                         printed |-> got.printed,
                         done |-> TRUE]
    /\ UNCHANGED <<callVars, ret, keysVars, widthVars, textVars, hosts_in,
                   colorVars, promptVars, runVars>>

\* ------------------------------------------------------------ event loop
Handle(t, h) == [t |-> t, h |-> h]

\* run_until_complete is running the loop: for main(), or for the gather of
\* the tasks asyncio.run cancelled
Active == loop \in {"running", "cancelling"}

\* a handle may run: the loop is inside an iteration and it is the next one
Runs(t, h) ==
    /\ Active
    /\ batch > 0
    /\ ready # <<>>
    /\ Head(ready) = Handle(t, h)

\* Queue.put_nowait's _wakeup_next: the printer's pending getter is resolved
WakeHandles(h, items) ==
    IF items # <<>> /\ getters[h] THEN <<Handle("print", h)>> ELSE <<>>

\* the done callbacks of the task execute(h), in the order they were added:
\* the one of main()'s gather, then the one of the gather of cancelled tasks
DoneCallbacks(h) ==
    <<Handle("gcb", h)>>
        \o (IF loop = "cancelling" THEN <<Handle("ccb_exec", h)>> ELSE <<>>)

ExecEffectsShared(h, items, newpc, f) ==
    /\ queue' = [queue EXCEPT ![1] = @ \o items]
    /\ pushed' = [pushed EXCEPT ![1] = @ \o items]
    /\ getters' = [getters EXCEPT ![h] = IF items # <<>> THEN FALSE ELSE @]
    /\ ready' = Tail(ready) \o WakeHandles(h, items)
                  \o (IF f # "none" THEN DoneCallbacks(h) ELSE <<>>)
    /\ batch' = batch - 1
    /\ pc' = [pc EXCEPT ![h] = newpc]
    /\ fin' = [fin EXCEPT ![h] = f]
\* a step of execute(h) that puts `items` and suspends at newpc, or ends the
\* task the way f says (f = "none": the task goes on)
ExecEffects(h, items, newpc, f) ==
    /\ queue' = [queue EXCEPT ![h] = @ \o items]
    /\ pushed' = [pushed EXCEPT ![h] = @ \o items]
    /\ getters' = [getters EXCEPT ![h] = IF items # <<>> THEN FALSE ELSE @]
    /\ ready' = Tail(ready) \o WakeHandles(h, items)
                  \o (IF f # "none" THEN DoneCallbacks(h) ELSE <<>>)
    /\ batch' = batch - 1
    /\ pc' = [pc EXCEPT ![h] = newpc]
    /\ fin' = [fin EXCEPT ![h] = f]

\* how the command of a host ends: conn.run returned ("ok") or the lines of
\* process.stdout are exhausted ("eof"), or one of the awaits of
\* execute_command or stream_command_output raised an asyncssh.Error, a
\* ConnectionError (the OSError of a reset or broken connection), a
\* RuntimeError, or an exception execute() does not catch
CommandOutcomes ==
    {IF separate_output THEN "ok" ELSE "eof",
     "ssh_error", "conn_error", "runtime_error", "other_exc"}

\* what execute(h) puts once the command has ended the way o says, or the
\* task was cancelled: the except clause of execute_command or of
\* stream_command_output, then those of execute(), then its finally
EndChunks(h, o) ==
    CASE o = "ok" -> <<Out(h)>> \o FinallyChunks(h)
      [] o = "ssh_error" /\ separate_output ->
            RuntimeErrorChunks(h) \o FinallyChunks(h)
      [] o = "ssh_error" -> <<DiagStream(h)>> \o FinallyChunks(h)
      [] o = "conn_error" -> ConnectionErrorChunks(h) \o FinallyChunks(h)
      [] o = "runtime_error" -> RuntimeErrorChunks(h) \o FinallyChunks(h)
      [] OTHER -> FinallyChunks(h)

\* where the task execute(h) is once it has ended that way
EndPc(o) ==
    CASE o = "other_exc" -> "failed"
      [] o = "cancelled" -> "cancelled"
      [] OTHER -> "done"

\* capture mode, execute(h) runs from await conn.run on: conn.run suspends
\* the task (again), or it returned or raised: conn.close() in the finally
\* of execute_command, then the except clauses and the finally of execute()
RunStep(h) ==
    /\ \/ /\ ExecEffects(h, <<>>, "run", "none")
          /\ sess' = [sess EXCEPT ![h] = "open"]
       \/ \E o \in CommandOutcomes :
          /\ ExecEffects(h, EndChunks(h, o), EndPc(o), o)
          /\ sess' = [sess EXCEPT ![h] = "closed"]
    /\ UNCHANGED <<nlines, inflight>>

\* stream mode, execute(h) runs inside the async with of
\* stream_command_output until an await suspends it: it puts the lines
\* process.stdout has ready, none or several, and is then suspended in
\* __aenter__ or in the read of the next line, or the body has ended (the
\* lines are exhausted, or __aenter__ or a read raised) and either __aexit__
\* suspends the task or the task runs to its end
StreamStep(h) ==
    /\ sess' = [sess EXCEPT ![h] = "open"]
    /\ \E j \in 0..(MaxLines - nlines[h]) :
       LET lines == SubSeq(Lines(h, nlines[h] + j),
                           nlines[h] + 1, nlines[h] + j) IN
       /\ nlines' = [nlines EXCEPT ![h] = @ + j]
       /\ \/ /\ ExecEffects(h, lines, "stream", "none")
             /\ UNCHANGED inflight
          \/ \E o \in CommandOutcomes :
             \/ /\ ExecEffects(h, lines, "exit", "none")
                /\ inflight' = [inflight EXCEPT ![h] = o]
             \/ /\ ExecEffects(h, lines \o EndChunks(h, o), EndPc(o), o)
                /\ UNCHANGED inflight

Scheduled(t, h) == \E i \in 1..Len(ready) : ready[i] = Handle(t, h)

\* the attempt task of h ends in a step of its own: asyncssh.connect returned
\* or raised, or CancelledError was thrown into it.  The done callback of the
\* gather of cancelled tasks is scheduled when the task is one of them; the
\* callback that releases wait_for's waiter is part of Deliver.
AttemptEnds(h) ==
    /\ Active
    /\ att[h] \in {"pending", "stopping"}
    /\ att' = [att EXCEPT ![h] = CASE pc[h] # "connect" -> "none"
                                   [] @ = "pending" -> "completed"
                                   [] OTHER -> "cancelled"]
    /\ agather' = [agather EXCEPT ![h] = FALSE]
    /\ ready' = ready \o (IF agather[h] THEN <<Handle("ccb_att", h)>>
                          ELSE <<>>)
    /\ UNCHANGED <<callVars, fnVars, colorVars, promptVars,
                   separate_output, batch, stopping, loop, mainVars,
                   pc, rc, nlines, sess, ran, fin, inflight, printVars,
                   xcancel, pcancel, npending>>

\* the future execute(h) awaits can be resolved: wait_for's waiter by its
\* timer or by the end of the attempt, the waiter of the wait for a cancelled
\* attempt by the end of that attempt only, everything else (asyncio.sleep,
\* conn.run, the process and its stdout) by its own I/O or timer
Resolvable(h) ==
    CASE pc[h] = "connect" /\ xcancel[h] = "none" ->
            att[h] \in {"pending", "completed"}
      [] pc[h] = "connect" -> att[h] \in {"completed", "cancelled"}
      [] OTHER -> pc[h] \in {"sleep", "run", "stream", "exit"}

\* the future execute(h) awaits is resolved by a callback of the loop's own
\* machinery (a timer, the selector, the done callback of the attempt task),
\* inside an iteration or between two: the wake-up of the task is appended to
\* the ready queue, behind the current batch; what is delivered is read when
\* the task runs
Deliver(h) ==
    /\ Active
    /\ Resolvable(h)
    /\ ~Scheduled("exec", h)
    /\ ready' = Append(ready, Handle("exec", h))
    /\ UNCHANGED <<callVars, fnVars, colorVars, promptVars,
                   separate_output, cancelVars, batch, stopping, loop, mainVars,
                   execVars, printVars>>

\* _run_once: ntodo = len(self._ready)
StartIteration ==
    /\ Active
    /\ batch = 0
    /\ ~stopping
    /\ ready # <<>>
    /\ batch' = Len(ready)
    /\ UNCHANGED <<callVars, fnVars, colorVars, promptVars,
                   separate_output, cancelVars, ready, stopping, loop, mainVars,
                   execVars, printVars>>

\* ------------------------------------------------------------ execute
\* from the top of execute() to the first await of retry_connect: the prompt
\* and the end_marker are made, then get_ssh_keys either finds keys or raises
\* ConnectionError
ExecStart(h) ==
    /\ Runs("exec", h)
    /\ pc[h] = "start"
    /\ \E keys \in {"keys", "no_keys"} :
          IF keys = "no_keys"
          THEN /\ ExecEffects(h, ConnectionErrorChunks(h) \o FinallyChunks(h),
                              "done", "no_keys")
               /\ UNCHANGED <<rc, att>>
          ELSE /\ ExecEffects(h, <<>>, "connect", "none")
               /\ rc' = [rc EXCEPT ![h] = RetryStart]
               /\ att' = [att EXCEPT ![h] = "pending"]
    /\ LET g == GetPrompt(HOST_COLOR, draws, h, COLOR) IN
       /\ HOST_COLOR' = g.map
       /\ draws' = g.draws
       /\ first_color' = FirstColor(first_color, h, g.prompt)
       /\ exec_prompt' = [exec_prompt EXCEPT ![h] = g.prompt]
       /\ end_color' = [end_color EXCEPT ![h] = EndMarkerColor(g.map, h, COLOR)]
    /\ UNCHANGED <<callVars, fnVars, COLOR, print_prompt,
                   separate_output, cancelVars, stopping, loop, mainVars,
                   nlines, sess, ran, inflight, ppc, printed, screen,
                   argVars>>

\* the awaited connection attempt has an outcome; the locals of retry_connect
\* are gone once the call has returned or raised
AttemptDue(h) ==
    CASE att[h] = "completed" -> AttemptOutcomes
      [] att[h] = "cancelled" /\ xcancel[h] = "tmo_wait" -> {"timeout"}
      [] OTHER -> {}

\* execute(h) is resumed in wait_for, by its waiter or with the CancelledError
\* of asyncio.run.  The attempt has completed: its result or its exception
\* (asyncssh.connect's own TimeoutError included) goes to retry_connect, a
\* cancellation is dropped.  With a session the task goes on into
\* execute_command or stream_command_output, in the same step, up to the
\* await that suspends it.  The timer fired and the attempt has not
\* completed: wait_for cancels it and waits for it to end; it raises
\* TimeoutError when the task is resumed after that.  The locals of
\* retry_connect are gone once the call has returned or raised
ExecConnect(h) ==
    /\ Runs("exec", h)
    /\ pc[h] = "connect"
    /\ \/ /\ xcancel[h] = "none"
          /\ att[h] = "pending"
          /\ xcancel' = [xcancel EXCEPT ![h] = "tmo_wait"]
          /\ att' = [att EXCEPT ![h] = "stopping"]
          /\ ExecEffects(h, <<>>, "connect", "none")
          /\ UNCHANGED <<rc, sess, ran, nlines, inflight>>
       \/ /\ xcancel[h] \in {"none", "tmo_wait", "thrown"}
          /\ \E o \in AttemptDue(h) :
             LET c2 == RetryOutcome(rc[h], o, DefaultMaxRetries) IN
             /\ xcancel' = [xcancel EXCEPT ![h] = "none"]
             /\ att' = [att EXCEPT ![h] = "none"]
             /\ rc' = [rc EXCEPT ![h] = IF c2.status = "sleeping" THEN c2
                                         ELSE RetryIdle]
             /\ CASE c2.status = "sleeping" ->
                       /\ ExecEffects(h, <<>>, "sleep", "none")
                       /\ UNCHANGED <<sess, ran, nlines, inflight>>
                  [] c2.status = "connected" ->
                       /\ ran' = [ran EXCEPT ![h] = TRUE]
                       /\ IF separate_output THEN RunStep(h)
                          ELSE StreamStep(h)
                  [] OTHER ->
                       /\ ExecEffects(h, ConnectionErrorChunks(h)
                                           \o FinallyChunks(h),
                                      "done", "conn_failed")
                       /\ UNCHANGED <<sess, ran, nlines, inflight>>
    /\ UNCHANGED <<callVars, fnVars, colorVars, promptVars,
                   separate_output, pcancel, agather, npending, stopping,
                   loop, mainVars, ppc, printed, screen, argVars>>

\* asyncio.sleep(1) returned: the next attempt is awaited
ExecSleep(h) ==
    /\ Runs("exec", h)
    /\ pc[h] = "sleep"
    /\ xcancel[h] = "none"
    /\ rc' = [rc EXCEPT ![h] = RetrySleepDone(@)]
    /\ att' = [att EXCEPT ![h] = "pending"]
    /\ ExecEffects(h, <<>>, "connect", "none")
    /\ UNCHANGED <<callVars, fnVars, colorVars, promptVars,
                   separate_output, cancelVars, stopping, loop, mainVars,
                   nlines, sess, ran, inflight, ppc, printed, screen,
                   argVars>>

\* capture mode: execute(h) is resumed inside conn.run
ExecRun(h) ==
    /\ Runs("exec", h)
    /\ pc[h] = "run"
    /\ xcancel[h] = "none"
    /\ RunStep(h)
    /\ UNCHANGED <<callVars, fnVars, colorVars, promptVars,
                   separate_output, cancelVars, stopping, loop, mainVars,
                   rc, ran, att, ppc, printed, screen, argVars>>

\* stream mode: execute(h) is resumed in __aenter__ of the process or in the
\* read of a line
ExecStream(h) ==
    /\ Runs("exec", h)
    /\ pc[h] = "stream"
    /\ xcancel[h] = "none"
    /\ StreamStep(h)
    /\ UNCHANGED <<callVars, fnVars, colorVars, promptVars,
                   separate_output, cancelVars, stopping, loop, mainVars,
                   rc, ran, att, ppc, printed, screen, argVars>>

\* stream mode: execute(h) is resumed in __aexit__ of the process, which
\* suspends it again or returns: the exception of the body, if any, goes to
\* the except clauses, then the finally of execute()
ExecExit(h) ==
    /\ Runs("exec", h)
    /\ pc[h] = "exit"
    /\ xcancel[h] = "none"
    /\ \/ /\ ExecEffects(h, <<>>, "exit", "none")
          /\ UNCHANGED inflight
       \/ /\ ExecEffects(h, EndChunks(h, inflight[h]), EndPc(inflight[h]),
                         inflight[h])
          /\ inflight' = [inflight EXCEPT ![h] = "none"]
    /\ UNCHANGED <<callVars, fnVars, colorVars, promptVars,
                   separate_output, cancelVars, stopping, loop, mainVars,
                   rc, nlines, sess, ran, att, ppc, printed, screen,
                   argVars>>

\* ------------------------------------------------------------ gather, main
AnyFinished(n) == n >= 1
\* gather's _done_callback: nfinished == nfuts
AllFinished(n) == n = NumHosts

\* the done callback gather attached to execute(h)
GatherCallback(h) ==
    /\ Runs("gcb", h)
    /\ nfinished' = nfinished + 1
    /\ IF outer # "pending"
       THEN /\ UNCHANGED outer
            /\ ready' = Tail(ready)
       ELSE IF pc[h] = "failed"
       THEN /\ outer' = "exception"
            /\ ready' = Append(Tail(ready), Handle("main", 0))
       ELSE IF AllFinished(nfinished + 1)
       THEN /\ outer' = "result"
            /\ ready' = Append(Tail(ready), Handle("main", 0))
       ELSE /\ UNCHANGED outer
            /\ ready' = Tail(ready)
    /\ batch' = batch - 1
    /\ UNCHANGED <<callVars, fnVars, colorVars, promptVars,
                   separate_output, cancelVars, stopping, loop, mainPc,
                   execVars, printVars>>

\* the getters main's puts resolve, in the order of OUTPUT_QUEUES
RECURSIVE CloseWakes(_)
CloseWakes(h) ==
    IF h > NumHosts THEN <<>>
    ELSE (IF getters[h] THEN <<Handle("print", h)>> ELSE <<>>) \o CloseWakes(h + 1)

NoCloseItems(h) == <<>>
\* await OUTPUT_QUEUES[host_name].put(None)
CloseItems(h) == <<Close>>

\* await asyncio.gather(*tasks) returned: None goes into every queue and
\* main() returns
MainPushClose ==
    /\ Runs("main", 0)
    /\ outer = "result"
    /\ queue' = [h \in Hosts |-> queue[h] \o CloseItems(h)]
    /\ pushed' = [h \in Hosts |-> pushed[h] \o CloseItems(h)]
    /\ getters' = [h \in Hosts |-> FALSE]
    /\ mainPc' = "done"
    /\ ready' = Tail(ready) \o CloseWakes(1) \o <<Handle("stop", 0)>>
    /\ batch' = batch - 1
    /\ UNCHANGED <<callVars, fnVars, colorVars, promptVars,
                   separate_output, cancelVars, stopping, loop, outer, nfinished,
                   execVars, ppc, printed, screen, argVars>>

\* await asyncio.gather(*tasks) raised the exception of a child: main() raises
MainRaise ==
    /\ Runs("main", 0)
    /\ outer = "exception"
    /\ mainPc' = "raised"
    /\ ready' = Append(Tail(ready), Handle("stop", 0))
    /\ batch' = batch - 1
    /\ UNCHANGED <<callVars, fnVars, colorVars, promptVars,
                   separate_output, cancelVars, stopping, loop, outer, nfinished,
                   execVars, printVars>>

\* run_until_complete's done callback on the main task: loop.stop()
StopHandle ==
    /\ Runs("stop", 0)
    /\ stopping' = TRUE
    /\ ready' = Tail(ready)
    /\ batch' = batch - 1
    /\ UNCHANGED <<callVars, fnVars, colorVars, promptVars,
                   separate_output, cancelVars, loop, mainVars, execVars,
                   printVars>>

\* ------------------------------------------------------------ print_output
QGetLifo(q) == <<q[Len(q)], SubSeq(q, 1, Len(q) - 1)>>
\* output_queue.get() on a queue that holds items: the item and the rest
QGet(q) == <<Head(q), Tail(q)>>

\* the while loop of print_output up to its next suspension: the chunks
\* handled (out), the queue left (q), and whether None ended the loop (stop)
RECURSIVE Drain(_, _)
Drain(q, acc) ==
    IF q = <<>> THEN [q |-> q, out |-> acc, stop |-> FALSE]
    ELSE LET g == QGet(q) IN
         IF g[1].kind = "close"
         THEN [q |-> g[2], out |-> acc, stop |-> TRUE]
         ELSE Drain(g[2], Append(acc, g[1]))

\* "-" * n
RECURSIVE Repeat(_, _)
Repeat(k, n) == IF n <= 0 THEN <<>> ELSE <<k>> \o Repeat(k, n - 1)

\* end_marker: ending_line, between the host's colour and RESET when COLOR
EndMarkerText ==
    LET ending_line == Repeat("a", EndingLineLength(args.remote_width))
    IN  IF COLOR THEN <<"SGR">> \o ending_line \o <<"RESET">> ELSE ending_line

\* the text of a queue item: result.stdout, a line of process.stdout after
\* line.rstrip(), a diagnostic (one line of visible characters), end_marker
ChunkText(c) ==
    CASE c.kind = "out" -> stdout[c.src]
      [] c.kind = "line" ->
            LET l == SplitLines(stdout[c.src], <<>>, <<>>)
            IN  RStrip(IF c.n <= Len(l) THEN l[c.n] ELSE <<>>)
      [] c.kind = "end" -> EndMarkerText
      [] OTHER -> <<"a">>

\* output.replace("\x1b[K", "\x1b[K\r\n").split("\r\n")
ChunkLines(c) == SplitLines(BreakAfterErase(ChunkText(c)), <<>>, <<>>)

\* for line in output.split("\r\n"), from the k-th line on: the lines printed,
\* with no await in the loop
RECURSIVE ScreenFrom(_, _, _, _)
ScreenFrom(p, c, allow, k) ==
    IF k > Len(ChunkLines(c)) THEN <<>>
    ELSE LET cleaned_line == clean_ansi_codes(ChunkLines(c)[k], PromptText)
         IN  (IF Keep(allow, cleaned_line)
              THEN <<[prompt |-> p, chunk |-> c, line |-> k,
                      text |-> cleaned_line]>>
              ELSE <<>>) \o ScreenFrom(p, c, allow, k + 1)

\* what print_output writes on stdout for one item
ScreenLines(p, c, allow) == ScreenFrom(p, c, allow, 1)

\* what the printer writes for the chunks it handles in one step
RECURSIVE PrintChunks(_, _, _)
PrintChunks(p, chunks, allow) ==
    IF chunks = <<>> THEN <<>>
    ELSE ScreenLines(p, Head(chunks), allow)
             \o PrintChunks(p, Tail(chunks), allow)

\* print_output(h) runs until it waits on an empty queue or breaks on None;
\* its first step makes the prompt
PrintStep(h) ==
    /\ Runs("print", h)
    /\ ppc[h] \in {"start", "waiting"}
    /\ ~pcancel[h]
    /\ IF ppc[h] = "start"
       THEN LET g == GetPrompt(HOST_COLOR, draws, h, COLOR) IN
            /\ HOST_COLOR' = g.map
            /\ draws' = g.draws
            /\ first_color' = FirstColor(first_color, h, g.prompt)
            /\ print_prompt' = [print_prompt EXCEPT ![h] = g.prompt]
       ELSE UNCHANGED <<HOST_COLOR, draws, first_color, print_prompt>>
    /\ LET d == Drain(queue[h], <<>>) IN
       /\ queue' = [queue EXCEPT ![h] = d.q]
       /\ printed' = [printed EXCEPT ![h] = @ \o d.out]
       /\ screen' = IF watch
                     THEN screen \o PrintChunks(print_prompt'[h], d.out,
                                                 args.allow_empty_line)
                     ELSE screen
       /\ UNCHANGED argVars
       /\ ppc' = [ppc EXCEPT ![h] = IF d.stop THEN "stopped" ELSE "waiting"]
       /\ getters' = [getters EXCEPT ![h] = ~d.stop]
    /\ ready' = Tail(ready)
    /\ batch' = batch - 1
    /\ UNCHANGED <<callVars, fnVars, COLOR, exec_prompt, end_color,
                   separate_output, cancelVars, stopping, loop, mainVars,
                   execVars, pushed>>

\* ------------------------------------------------------------ asyncio.run
\* the sequences that hold every element of S once
RECURSIVE Perms(_)
Perms(S) ==
    IF S = {} THEN {<<>>}
    ELSE UNION {{<<x>> \o p : p \in Perms(S \ {x})} : x \in S}

\* the tasks that are not done when run_until_complete(main()) returns
PendingExec ==
    {h \in Hosts : pc[h] \in {"connect", "sleep", "run", "stream", "exit"}}
PendingPrint == {h \in Hosts : ppc[h] \in {"start", "waiting"}}

\* the attempt tasks that are not done
PendingAttempt == {h \in Hosts : att[h] \in {"pending", "stopping"}}

\* run_until_complete returned and tasks are left: asyncio.run calls
\* task.cancel() on each of them, in the order of the set all_tasks(), and
\* runs the loop again until they are all done.  The future a task awaits is
\* cancelled, which wakes the task; a task whose wake-up is already in the
\* ready queue gets no second one and finds CancelledError when it runs.
CancelAllTasks ==
    /\ loop = "running"
    /\ batch = 0
    /\ stopping
    /\ PendingExec # {} \/ PendingPrint # {}
    /\ \E wakes \in Perms({Handle("exec", h) :
                               h \in {g \in PendingExec :
                                        ~Scheduled("exec", g)}}
                       \cup {Handle("print", h) :
                               h \in {g \in PendingPrint :
                                        ~Scheduled("print", g)}}) :
          ready' = ready \o wakes
    /\ xcancel' = [h \in Hosts |->
                     CASE h \notin PendingExec -> "none"
                       [] xcancel[h] = "tmo_wait" -> "waiting"
                       [] OTHER -> "thrown"]
    /\ att' = [h \in Hosts |-> IF h \in PendingAttempt THEN "stopping"
                               ELSE att[h]]
    /\ agather' = [h \in Hosts |-> h \in PendingAttempt]
    /\ pcancel' = [h \in Hosts |-> h \in PendingPrint]
    /\ getters' = [h \in Hosts |-> FALSE]
    /\ npending' = Cardinality(PendingExec) + Cardinality(PendingPrint)
                      + Cardinality(PendingAttempt)
    /\ loop' = "cancelling"
    /\ stopping' = FALSE
    /\ UNCHANGED <<callVars, fnVars, colorVars, promptVars,
                   separate_output, batch, mainVars,
                   pc, rc, nlines, sess, ran, fin, inflight,
                   ppc, queue, pushed, printed, screen, argVars>>

\* the cancellation reaches wait_for after the attempt has completed: wait_for
\* returns the attempt's result and the cancellation is dropped
Swallows(h) ==
    pc[h] = "connect" /\ xcancel[h] = "thrown" /\ att[h] = "completed"

\* execute(h) is resumed with CancelledError.  In wait_for with the attempt
\* still running, the attempt is cancelled and awaited first.  In the body of
\* the async with, __aexit__ may suspend the task with the error in flight.
\* With the attempt already ended by its own cancellation, everywhere else,
\* and after that wait, the error leaves execute(h): conn.close() in capture
\* mode, then the finally's end_marker
ExecCancelled(h) ==
    /\ Runs("exec", h)
    /\ xcancel[h] \in {"thrown", "waiting"}
    /\ ~Swallows(h)
    /\ \/ /\ xcancel[h] = "thrown" /\ pc[h] = "connect" /\ h \in PendingAttempt
          /\ xcancel' = [xcancel EXCEPT ![h] = "waiting"]
          /\ ready' = Tail(ready)
          /\ batch' = batch - 1
          /\ UNCHANGED <<pc, fin, queue, pushed, getters, sess, rc, att,
                         inflight>>
       \/ /\ pc[h] = "stream"
          /\ xcancel' = [xcancel EXCEPT ![h] = "none"]
          /\ ExecEffects(h, <<>>, "exit", "none")
          /\ inflight' = [inflight EXCEPT ![h] = "cancelled"]
          /\ UNCHANGED <<sess, rc, att>>
       \/ /\ ~(xcancel[h] = "thrown" /\ pc[h] = "connect"
                /\ h \in PendingAttempt)
          /\ xcancel' = [xcancel EXCEPT ![h] = "none"]
          /\ ExecEffects(h, FinallyChunks(h), "cancelled", "cancelled")
          /\ sess' = [sess EXCEPT ![h] = IF pc[h] = "run" THEN "closed" ELSE @]
          /\ rc' = [rc EXCEPT ![h] = RetryIdle]
          /\ att' = [att EXCEPT ![h] = IF h \in PendingAttempt THEN @
                                       ELSE "none"]
          /\ inflight' = [inflight EXCEPT ![h] = "none"]
    /\ UNCHANGED <<callVars, fnVars, colorVars, promptVars,
                   separate_output, stopping, loop, mainVars,
                   nlines, ran, ppc, printed, screen, argVars,
                   pcancel, agather, npending>>

\* print_output(h) is resumed with CancelledError in Queue.get
PrintCancelled(h) ==
    /\ Runs("print", h)
    /\ pcancel[h]
    /\ ppc' = [ppc EXCEPT ![h] = "cancelled"]
    /\ pcancel' = [pcancel EXCEPT ![h] = FALSE]
    /\ ready' = Append(Tail(ready), Handle("ccb_print", h))
    /\ batch' = batch - 1
    /\ UNCHANGED <<callVars, fnVars, colorVars, promptVars,
                   separate_output, stopping, loop, mainVars, execVars,
                   getters, queue, pushed, printed, screen, argVars,
                   xcancel, agather, npending>>

\* the done callback the gather of the cancelled tasks attached to a task:
\* after the last one, run_until_complete's callback stops the loop
CancelCallback(t, h) ==
    /\ Runs(t, h)
    /\ npending' = npending - 1
    /\ ready' = Tail(ready)
                  \o (IF npending = 1 THEN <<Handle("stop", 0)>> ELSE <<>>)
    /\ batch' = batch - 1
    /\ UNCHANGED <<callVars, fnVars, colorVars, promptVars,
                   separate_output, stopping, loop, mainVars, execVars,
                   printVars, xcancel, pcancel, agather>>

\* no task is left, or the cancelled tasks are all done: run_forever has
\* reset _stopping on its way out and the loop is closed
Shutdown ==
    /\ Active
    /\ batch = 0
    /\ stopping
    /\ loop = "running" => PendingExec = {} /\ PendingPrint = {}
    /\ loop' = "closed"
    /\ stopping' = FALSE
    /\ ready' = <<>>
    /\ UNCHANGED <<callVars, fnVars, colorVars, promptVars,
                   separate_output, batch, mainVars, execVars,
                   printVars, cancelVars>>

\* ------------------------------------------------------------ specifications
RECURSIVE InitialHandles(_, _)
InitialHandles(t, h) ==
    IF h > NumHosts THEN <<>> ELSE <<Handle(t, h)>> \o InitialHandles(t, h + 1)

\* main() has created the queues, the printer tasks and the execute tasks and
\* waits in await asyncio.gather(*tasks); no task has run yet
RunInit ==
    /\ ready = InitialHandles("print", 1) \o InitialHandles("exec", 1)
    /\ batch = 0
    /\ stopping = FALSE
    /\ loop = "running"
    /\ mainPc = "await_gather"
    /\ outer = "pending"
    /\ nfinished = 0
    /\ pc = [h \in Hosts |-> "start"]
    /\ rc = [h \in Hosts |-> RetryIdle]
    /\ nlines = [h \in Hosts |-> 0]
    /\ sess = [h \in Hosts |-> "none"]
    /\ ran = [h \in Hosts |-> FALSE]
    /\ fin = [h \in Hosts |-> "none"]
    /\ inflight = [h \in Hosts |-> "none"]
    /\ ppc = [h \in Hosts |-> "start"]
    /\ getters = [h \in Hosts |-> FALSE]
    /\ queue = [h \in Hosts |-> <<>>]
    /\ pushed = [h \in Hosts |-> <<>>]
    /\ printed = [h \in Hosts |-> <<>>]
    /\ screen = <<>>
    /\ att = [h \in Hosts |-> "none"]
    /\ xcancel = [h \in Hosts |-> "none"]
    /\ pcancel = [h \in Hosts |-> FALSE]
    /\ agather = [h \in Hosts |-> FALSE]
    /\ npending = 0

\* stdout is not recorded: what the hosts write is left out
NoWatch ==
    /\ watch = FALSE
    /\ args = [allow_empty_line |-> FALSE, remote_width |-> MaxWidth]
    /\ stdout = [h \in Hosts |-> <<"a">>]

\* the module was imported: no host has a colour, no prompt was made
ColorInit ==
    /\ HOST_COLOR = [n \in Names |-> None]
    /\ draws = 0
    /\ first_color = [n \in Names |-> None]
    /\ exec_prompt = [h \in Hosts |-> NoPrompt]
    /\ end_color = [h \in Hosts |-> None]
    /\ print_prompt = [h \in Hosts |-> NoPrompt]
    /\ ret = NoPrompt

\* no pure function is being exercised
KeysInit ==
    /\ keys_in = [key_path |-> Absent, default_key |-> Absent, disk |-> {}]
    /\ keys_out = KeysIdle

WidthInit ==
    /\ width_in = [local_display_width |-> MaxDisplayWidth,
                   max_name_length |-> 1]
    /\ width_out = WidthIdle

TextInit ==
    /\ text_in = [output |-> <<>>, allow_empty_line |-> FALSE,
                  prompt |-> PromptText]
    /\ text_out = TextIdle

HostsInit ==
    /\ hosts_in = [host_file |-> "hosts.csv", host_tags |-> NoTags,
                   rows |-> <<>>]
    /\ hosts_out = HostsIdle

FnIdle ==
    /\ KeysInit
    /\ WidthInit
    /\ TextInit
    /\ HostsInit

Init ==
    /\ separate_output \in BOOLEAN
    /\ RunInit
    /\ NoWatch
    /\ ColorInit
    /\ FnIdle
    /\ COLOR = TRUE
    /\ call_max_retries = DefaultMaxRetries
    /\ call = RetryIdle
    /\ call_log = <<>>

Next ==
    \/ StartIteration
    \/ \E h \in Hosts : AttemptEnds(h)
    \/ \E h \in Hosts : Deliver(h)
    \/ \E h \in Hosts : ExecStart(h)
    \/ \E h \in Hosts : ExecConnect(h)
    \/ \E h \in Hosts : ExecSleep(h)
    \/ \E h \in Hosts : ExecRun(h)
    \/ \E h \in Hosts : ExecStream(h)
    \/ \E h \in Hosts : ExecExit(h)
    \/ \E h \in Hosts : GatherCallback(h)
    \/ \E h \in Hosts : PrintStep(h)
    \/ MainPushClose
    \/ MainRaise
    \/ StopHandle
    \/ CancelAllTasks
    \/ \E h \in Hosts : ExecCancelled(h)
    \/ \E h \in Hosts : PrintCancelled(h)
    \/ \E h \in Hosts : CancelCallback("ccb_exec", h)
    \/ \E h \in Hosts : CancelCallback("ccb_print", h)
    \/ \E h \in Hosts : CancelCallback("ccb_att", h)
    \/ Shutdown

Spec == Init /\ [][Next]_vars

\* the event loop runs every handle that is ready and goes through its
\* iterations until loop.stop(), and asyncio.run then shuts it down
SpecFair == Init /\ [][Next]_vars /\ WF_vars(Next)

\* the lines a command writes, n of them: the first holds \x1b[K before a
\* trailing blank
RECURSIVE OutputOf(_)
OutputOf(n) ==
    IF n <= 1 THEN <<"a", "EL", " ">> ELSE OutputOf(n - 1) \o <<"CRLF", "a">>
\* what a command writes in a recorded run: nothing, or OutLines lines
Outputs == {<<>>, OutputOf(OutLines)}
\* the remote widths of a recorded run: none left for the dashes, or some
Widths == {0, MaxWidth}

\* a run of main() in capture mode (-S) with stdout recorded
InitCapture ==
    /\ separate_output = TRUE
    /\ RunInit
    /\ watch = TRUE
    /\ args \in [allow_empty_line : BOOLEAN, remote_width : Widths]
    /\ stdout \in [Hosts -> Outputs]
    /\ ColorInit
    /\ FnIdle
    /\ COLOR \in BOOLEAN
    /\ call_max_retries = DefaultMaxRetries
    /\ call = RetryIdle
    /\ call_log = <<>>

\* stream_command_output is not called in capture mode: no step of the task
\* begins inside its async with
NextCapture ==
    \/ StartIteration
    \/ \E h \in Hosts : AttemptEnds(h)
    \/ \E h \in Hosts : Deliver(h)
    \/ \E h \in Hosts : ExecStart(h)
    \/ \E h \in Hosts : ExecConnect(h)
    \/ \E h \in Hosts : ExecSleep(h)
    \/ \E h \in Hosts : ExecRun(h)
    \/ \E h \in Hosts : GatherCallback(h)
    \/ \E h \in Hosts : PrintStep(h)
    \/ MainPushClose
    \/ MainRaise
    \/ StopHandle
    \/ CancelAllTasks
    \/ \E h \in Hosts : ExecCancelled(h)
    \/ \E h \in Hosts : PrintCancelled(h)
    \/ \E h \in Hosts : CancelCallback("ccb_exec", h)
    \/ \E h \in Hosts : CancelCallback("ccb_print", h)
    \/ \E h \in Hosts : CancelCallback("ccb_att", h)
    \/ Shutdown

SpecCapture == InitCapture /\ [][NextCapture]_vars

\* one call of retry_connect, for every max_retries up to the bound
InitConn ==
    /\ separate_output = TRUE
    /\ RunInit
    /\ NoWatch
    /\ ColorInit
    /\ FnIdle
    /\ COLOR = TRUE
    /\ call_max_retries \in 0..MaxRetriesBound
    /\ call = RetryStart
    /\ call_log = <<>>

NextConn ==
    \/ \E o \in AttemptOutcomes : CallAttempt(o)
    \/ CallSleep

SpecConn == InitConn /\ [][NextConn]_vars

\* get_prompt called in any order for any of the names, with and without
\* colour
InitPalette ==
    /\ separate_output = TRUE
    /\ RunInit
    /\ NoWatch
    /\ ColorInit
    /\ FnIdle
    /\ COLOR \in BOOLEAN
    /\ call_max_retries = DefaultMaxRetries
    /\ call = RetryIdle
    /\ call_log = <<>>

NextPalette == \E n \in Names : GetPromptCall(n)

SpecPalette == InitPalette /\ [][NextPalette]_vars

\* one call of get_ssh_keys for every key_path, default_key and set of files
InitKeys ==
    /\ separate_output = TRUE
    /\ RunInit
    /\ NoWatch
    /\ ColorInit
    /\ COLOR = TRUE
    /\ call_max_retries = DefaultMaxRetries
    /\ call = RetryIdle
    /\ call_log = <<>>
    /\ keys_in \in [key_path : KeyPathValues, default_key : DefaultKeyValues,
                     disk : DiskValues]
    /\ keys_out = KeysIdle
    /\ WidthInit
    /\ TextInit
    /\ HostsInit

NextKeys == GetSshKeysCall

SpecKeys == InitKeys /\ [][NextKeys]_vars

\* the width computation of execute() for every terminal width and every
\* width of the name column up to the bounds
InitWidth ==
    /\ separate_output = TRUE
    /\ RunInit
    /\ NoWatch
    /\ ColorInit
    /\ COLOR = TRUE
    /\ call_max_retries = DefaultMaxRetries
    /\ call = RetryIdle
    /\ call_log = <<>>
    /\ KeysInit
    /\ width_in \in [local_display_width : 1..MaxDisplayWidth,
                      max_name_length : 1..MaxNameLength]
    /\ width_out = WidthIdle
    /\ TextInit
    /\ HostsInit

NextWidth == WidthCall

SpecWidth == InitWidth /\ [][NextWidth]_vars

\* the texts of up to n tokens
RECURSIVE Texts(_)
Texts(n) ==
    IF n = 0 THEN {<<>>}
    ELSE Texts(n - 1)
           \cup {Append(t, k) : t \in {u \in Texts(n - 1) : Len(u) = n - 1},
                                k \in TextTokens}

\* print_output handles one item, for every text up to MaxText tokens, both
\* values of allow_empty_line and each prompt
InitText ==
    /\ separate_output = TRUE
    /\ RunInit
    /\ NoWatch
    /\ ColorInit
    /\ COLOR = TRUE
    /\ call_max_retries = DefaultMaxRetries
    /\ call = RetryIdle
    /\ call_log = <<>>
    /\ KeysInit
    /\ WidthInit
    /\ text_in \in [output : Texts(MaxText), allow_empty_line : BOOLEAN,
                     prompt : Prompts]
    /\ text_out = TextIdle
    /\ HostsInit

NextText == PrintOutputCall

SpecText == InitText /\ [][NextText]_vars

\* the hosts files of up to n rows
RECURSIVE Files(_)
Files(n) ==
    IF n = 0 THEN {<<>>}
    ELSE Files(n - 1)
           \cup {Append(f, r) : f \in {g \in Files(n - 1) : Len(g) = n - 1},
                                r \in HostRows}

\* one call of get_hosts for every file of up to MaxRows rows and every
\* value of host_tags
InitHosts ==
    /\ separate_output = TRUE
    /\ RunInit
    /\ NoWatch
    /\ ColorInit
    /\ COLOR = TRUE
    /\ call_max_retries = DefaultMaxRetries
    /\ call = RetryIdle
    /\ call_log = <<>>
    /\ KeysInit
    /\ WidthInit
    /\ TextInit
    /\ hosts_in \in [host_file : HostFiles, host_tags : HostTagsValues,
                      rows : Files(MaxRows)]
    /\ hosts_out = HostsIdle

NextHosts == GetHostsCall

SpecHosts == InitHosts /\ [][NextHosts]_vars

\* ------------------------------------------------------------ properties
Count(seq, kind) == Cardinality({i \in 1..Len(seq) : seq[i].kind = kind})
IsData(c) == c.kind # "close"
NonClose(seq) == SelectSeq(seq, IsData)

\* C1: for hosts that each end in success, no credential, connection failure
\* or remote execution failure, every queue receives exactly one end-marker
\* and exactly one close signal over the run; nothing but the close signal
\* follows the end-marker, and the close signal directly follows it.
C1_OneEndMarkerOneClose ==
    \A h \in Hosts :
        /\ Count(pushed[h], "end") <= 1
        /\ Count(pushed[h], "close") <= 1
        /\ \A i \in 1..Len(pushed[h]) : \A j \in 1..Len(pushed[h]) :
              (pushed[h][i].kind = "end" /\ j > i) => pushed[h][j].kind = "close"
        /\ \A i \in 1..Len(pushed[h]) :
              pushed[h][i].kind = "close" =>
                  i = Len(pushed[h]) /\ i > 1 /\ pushed[h][i - 1].kind = "end"
        /\ pc[h] = "done" => Count(pushed[h], "end") = 1
        /\ (loop = "closed" /\ \A g \in Hosts : pc[g] = "done") =>
              Count(pushed[h], "end") = 1 /\ Count(pushed[h], "close") = 1

C1_Witness ==
    /\ loop = "closed"
    /\ pushed[1] = <<DiagConn(1), EndMarker(1), Close>>
    /\ pushed[2] = <<DiagExec(2), EndMarker(2), Close>>

\* C2: the printer of a host handles that host's chunks in exactly the order
\* they were enqueued, whatever the other hosts do: what was enqueued is what
\* was handled, then the close signal if consumed, then what is still queued;
\* a printer that stopped on the close signal has handled every chunk before
\* it and nothing else.
C2_PrinterFifo ==
    \A h \in Hosts :
        /\ pushed[h] = printed[h]
                         \o (IF ppc[h] = "stopped" THEN <<Close>> ELSE <<>>)
                         \o queue[h]
        /\ ppc[h] = "stopped" => queue[h] = <<>>

C2_Witness ==
    /\ ppc[1] = "stopped"
    /\ printed[1] = <<Line(1, 1), Line(1, 2), EndMarker(1)>>
    /\ ppc[2] = "stopped"
    /\ Len(printed[2]) >= 2

\* C3: a close signal is in some queue only when the execution tasks of all
\* hosts have finished and every host's end-marker has been enqueued.
C3_CloseAfterAllExecutions ==
    (\E h \in Hosts : Count(pushed[h], "close") > 0) =>
        \A g \in Hosts : pc[g] = "done" /\ Count(pushed[g], "end") = 1

C3_Witness ==
    /\ mainPc = "done"
    /\ Count(pushed[1], "close") = 1
    /\ Count(pushed[2], "close") = 1
    /\ Count(pushed[2], "line") = 2
    /\ fin[1] = "no_keys"

\* C4: once main() has pushed the close signals and returned, every printer
\* has consumed its close signal and stopped, and every queue is empty.
C4_MainWaitsForPrinters ==
    mainPc = "done" => \A h \in Hosts : ppc[h] = "stopped" /\ queue[h] = <<>>

\* C5: no exception leaves an execution task and none reaches main()'s wait
\* on the execution tasks.
C5_NoExceptionEscapes ==
    /\ \A h \in Hosts : pc[h] # "failed"
    /\ mainPc # "raised"

\* the chunks execute(h) enqueues, as a function of how the host itself ended
ExpectedChunks(h) ==
    CASE fin[h] \in {"no_keys", "conn_failed"} -> <<DiagConn(h), EndMarker(h)>>
      [] fin[h] = "ok" -> <<Out(h), EndMarker(h)>>
      [] fin[h] = "eof" -> Lines(h, nlines[h]) \o <<EndMarker(h)>>
      [] fin[h] = "ssh_error" /\ separate_output -> <<DiagExec(h), EndMarker(h)>>
      [] fin[h] = "ssh_error" /\ ~separate_output ->
            Lines(h, nlines[h]) \o <<DiagStream(h), EndMarker(h)>>
      [] fin[h] = "conn_error" ->
            Lines(h, nlines[h]) \o <<DiagConn(h), EndMarker(h)>>
      [] fin[h] = "runtime_error" ->
            Lines(h, nlines[h]) \o <<DiagExec(h), EndMarker(h)>>
      [] OTHER -> <<>>

\* C6: a host whose connection could not be established (no key, or its
\* attempts failed) has in its queue, before the close signal, exactly one
\* diagnostic chunk naming the host and then its end-marker, and no command
\* was started on it; the chunks of every host that finished are those its
\* own outcome determines, whatever happened to the other hosts.
C6_ConnectFailureOneDiagnostic ==
    \A h \in Hosts :
        /\ fin[h] \in {"no_keys", "conn_failed"} =>
              /\ NonClose(pushed[h]) = <<DiagConn(h), EndMarker(h)>>
              /\ NonClose(pushed[h])[1].names = h
              /\ ~ran[h]
              /\ sess[h] = "none"
        /\ pc[h] = "done" => NonClose(pushed[h]) = ExpectedChunks(h)

C6_Witness ==
    /\ mainPc = "done"
    /\ fin[1] = "conn_failed"
    /\ fin[2] = "ok"
    /\ pushed[2] = <<Out(2), EndMarker(2), Close>>

\* C7: when the run is over, every host whose own execution finished has had
\* all of its chunks and its end-marker printed, whatever the other hosts did.
C7_FinishedHostsPrinted ==
    loop = "closed" =>
        \A g \in Hosts : pc[g] = "done" => printed[g] = NonClose(pushed[g])

Failed(i) == call_log[i].outcome # "ok"

\* C8 as claimed: one call makes at most max_retries + 1 attempts; it
\* returns at the first successful attempt; it fails only after exactly
\* max_retries + 1 failed attempts.
C8_Original ==
    /\ Len(call_log) <= call_max_retries + 1
    /\ \A i \in 1..Len(call_log) :
          call_log[i].outcome = "ok" => i = Len(call_log) /\ call.status = "connected"
    /\ call.status = "connected" => call_log[Len(call_log)].outcome = "ok"
    /\ call.status = "raised" =>
          /\ Len(call_log) = call_max_retries + 1
          /\ \A i \in 1..Len(call_log) : Failed(i)

Retried(i) == call_log[i].outcome \in {"timeout", "kex", "ssh_error"}

\* C8: one call makes at most max_retries + 1 attempts; it returns at the
\* first successful attempt and attempts nothing after it; it raises its own
\* ConnectionError only after exactly max_retries + 1 attempts that each
\* failed with a timeout or an asyncssh.Error; an attempt that raises any
\* other exception is the last one, and that exception leaves the call.
C8_AttemptBudget ==
    /\ Len(call_log) <= call_max_retries + 1
    /\ \A i \in 1..Len(call_log) :
          /\ call_log[i].outcome = "ok" =>
                i = Len(call_log) /\ call.status = "connected"
          /\ call_log[i].outcome = "os_error" =>
                i = Len(call_log) /\ call.status = "raised"
                    /\ call.exc.type = "OSError"
          /\ i < Len(call_log) => Retried(i)
    /\ call.status = "connected" => call_log[Len(call_log)].outcome = "ok"
    /\ call.status \in {"trying", "sleeping"} =>
          /\ Len(call_log) = call.attempt + (IF call.status = "sleeping" THEN 1 ELSE 0)
          /\ Len(call_log) <= call_max_retries
    /\ (call.status = "raised" /\ call.exc.type = "ConnectionError") =>
          /\ Len(call_log) = call_max_retries + 1
          /\ \A i \in 1..Len(call_log) : Retried(i)
    /\ (call.status = "raised" /\ call.exc.type = "OSError") =>
          call_log[Len(call_log)].outcome = "os_error"

C8_Witness ==
    /\ call_max_retries = 2
    /\ call.status = "raised"
    /\ call.exc.type = "ConnectionError"
    /\ Len(call_log) = 3
    /\ call_log[1].outcome = "ssh_error"
    /\ call_log[3].outcome = "timeout"

\* C9: an attempt uses the full default algorithm set exactly when an earlier
\* attempt of the same call failed with a key-exchange failure; before that
\* the narrowed preference is used, and timeouts and other errors never
\* change the mode.
C9_OneWayDegradation ==
    \A i \in 1..Len(call_log) :
        call_log[i].algo =
            IF \E j \in 1..(i - 1) : call_log[j].outcome = "kex"
            THEN "full" ELSE "narrowed"

C9_Witness ==
    /\ Len(call_log) = 4
    /\ call_log[1].outcome = "timeout"
    /\ call_log[2].outcome = "kex"
    /\ call_log[3].outcome = "ssh_error"
    /\ call_log[2].algo = "narrowed"
    /\ call_log[4].algo = "full"

\* every attempt of the call failed with a timeout or an asyncssh.Error and
\* the for loop is exhausted
Exhausted ==
    /\ call.status = "raised"
    /\ Len(call_log) = call_max_retries + 1
    /\ \A i \in 1..Len(call_log) :
          call_log[i].outcome \in {"timeout", "kex", "ssh_error"}

LastOutcome == call_log[Len(call_log)].outcome

\* C10 as claimed: when all attempts fail, the raised error carries the
\* failure of the last attempt and is annotated with the host address and
\* the timeout.
C10_Original ==
    Exhausted =>
        /\ call.exc.type = "ConnectionError"
        /\ call.exc.kind = LastOutcome
        /\ call.exc.addr
        /\ call.exc.timeout

\* C10: when all attempts fail, the raised ConnectionError reports the
\* failure of the last attempt and names the host address; it names the
\* timeout exactly when the last attempt timed out, and otherwise embeds the
\* error of the last attempt.
C10_LastFailureReported ==
    Exhausted =>
        /\ call.exc.type = "ConnectionError"
        /\ call.exc.kind = LastOutcome
        /\ call.exc.addr
        /\ call.exc.timeout <=> (LastOutcome = "timeout")
        /\ LastOutcome # "timeout" =>
              call.exc.embeds = [kind |-> LastOutcome, at |-> call_max_retries]

C10_Witness ==
    /\ Exhausted
    /\ Len(call_log) = 3
    /\ call_log[1].outcome = "timeout"
    /\ call_log[2].outcome = "kex"
    /\ call_log[3].outcome = "ssh_error"
    /\ call.exc.embeds = [kind |-> "ssh_error", at |-> 2]

\* execute(h) is over: it returned, raised, or was cancelled
Ended(h) == pc[h] \in {"done", "failed", "cancelled"}

\* C11: in capture mode and in stream mode, a session that was opened for a
\* host is closed by the time the host's execution task is over; in capture
\* mode it is closed no later than the output chunk or the diagnostic is put.
C11_SessionClosedAtTaskEnd ==
    \A h \in Hosts :
        /\ Ended(h) => sess[h] # "open"
        /\ (separate_output /\ Count(pushed[h], "out") + Count(pushed[h], "diag_exec") > 0)
              => sess[h] = "closed"

\* the names a prompt was made for
Seen == {n \in Names : first_color[n] # None}
Colored == {n \in Names : HOST_COLOR[n] # None}
Min(a, b) == IF a < b THEN a ELSE b

\* C12: with colour enabled, after any sequence of prompt requests the map
\* holds exactly the names requested, each with the colour of its first
\* request (an entry never changes), every request returns the colour of the
\* first request for its name, and the names seen have pairwise distinct
\* colours unless more than NumColors names were seen.
C12_ColorMapStable ==
    COLOR =>
        /\ Colored = Seen
        /\ \A n \in Names : HOST_COLOR[n] = first_color[n]
        /\ ret # NoPrompt =>
              /\ ret.color # None
              /\ ret.color = first_color[ret.host]
        /\ Cardinality({HOST_COLOR[n] : n \in Seen})
              = Min(Cardinality(Seen), NumColors)
        /\ \A a \in Seen : \A b \in Seen :
              (a # b /\ HOST_COLOR[a] = HOST_COLOR[b]) =>
                  Cardinality(Seen) > NumColors

C12_Witness ==
    /\ COLOR
    /\ Cardinality(Seen) = NumColors + 1
    /\ \E a \in Seen : \E b \in Seen : a # b /\ HOST_COLOR[a] = HOST_COLOR[b]
    /\ ret.host = 1
    /\ first_color[1] = 3

\* C13: in every schedule of the run, the colours drawn from the cycle are
\* as many as the names that have a colour; the prompt of execute(h) and the
\* prompt of print_output(h) carry the same colour, the one of the host's
\* map entry; the end-marker of the host has the colour of its prompt.
C13_OneDrawPerHost ==
    /\ draws = Cardinality(Colored)
    /\ \A h \in Hosts :
          /\ exec_prompt[h] # NoPrompt =>
                /\ exec_prompt[h] = Prompt(HOST_COLOR[h], h)
                /\ exec_prompt[h].color # None
                /\ end_color[h] = exec_prompt[h].color
          /\ print_prompt[h] # NoPrompt =>
                /\ print_prompt[h] = Prompt(HOST_COLOR[h], h)
                /\ print_prompt[h].color # None
          /\ (exec_prompt[h] # NoPrompt /\ print_prompt[h] # NoPrompt) =>
                /\ exec_prompt[h].color = print_prompt[h].color
                /\ end_color[h] = print_prompt[h].color
          /\ pc[h] # "start" => exec_prompt[h] # NoPrompt
          /\ ppc[h] # "start" => print_prompt[h] # NoPrompt

C13_Witness ==
    /\ loop = "closed"
    /\ draws = NumHosts
    /\ \A h \in Hosts :
          /\ Count(printed[h], "end") = 1
          /\ end_color[h] = print_prompt[h].color
          /\ exec_prompt[h].color = h

HostKeyGiven == Truthy(keys_in.key_path) /\ keys_in.key_path # "#"
DefaultKeyGiven == Truthy(keys_in.default_key)
Existing(k) == IF k \in keys_in.disk THEN <<k>> ELSE <<>>
ExistingInOrder ==
    Existing("id_ed25519") \o Existing("id_rsa") \o Existing("id_ecdsa")
        \o Existing("id_dsa")

\* C14: get_ssh_keys returns [key_path] when the host key is present,
\* non-empty and not "#", whatever the default and the disk; otherwise
\* [default_key] when a non-empty default is given; otherwise the existing
\* common keys in the order id_ed25519, id_rsa, id_ecdsa, id_dsa; it raises
\* exactly when the first two do not apply and no common key exists; no file
\* is checked in the first two cases; None and "" behave like "#".
C14_KeyResolution ==
    keys_out # KeysIdle =>
        /\ HostKeyGiven =>
              keys_out = [keys |-> <<keys_in.key_path>>, error |-> "none",
                          checked |-> <<>>]
        /\ (~HostKeyGiven /\ DefaultKeyGiven) =>
              keys_out = [keys |-> <<keys_in.default_key>>, error |-> "none",
                          checked |-> <<>>]
        /\ (~HostKeyGiven /\ ~DefaultKeyGiven) =>
              /\ keys_out.keys = ExistingInOrder
              /\ keys_out.checked # <<>>
        /\ keys_out.error = "ConnectionError" <=>
              (~HostKeyGiven /\ ~DefaultKeyGiven /\ ExistingInOrder = <<>>)
        /\ keys_out.error \in {"none", "ConnectionError"}
        /\ keys_in.key_path \in {Absent, ""} =>
              keys_out = GetSshKeys("#", keys_in.default_key, keys_in.disk)

C14_Witness ==
    /\ keys_in.key_path = ""
    /\ keys_in.default_key = Absent
    /\ keys_in.disk = {"id_dsa", "id_rsa", "id_ed25519"}
    /\ keys_out.keys = <<"id_ed25519", "id_rsa", "id_dsa">>

IsDiag(c) == c.kind \in {"diag_conn", "diag_exec", "diag_stream"}
Diags(seq) == SelectSeq(seq, IsDiag)

\* how execute(h) ends when the command fails while it runs: conn.run,
\* create_process or process.stdout raised
ExecFailures == {"ssh_error", "conn_error", "runtime_error", "other_exc"}

\* C15: a command that fails while it runs leaves in the host's queue exactly
\* one diagnostic chunk and then the end-marker: in stream mode after the
\* lines forwarded before the failure, in their order of arrival; in capture
\* mode with no output chunk.  Lines forwarded so far are queued in arrival
\* order at any time.
C15_ExecFailureOneDiagnostic ==
    \A h \in Hosts :
        /\ fin[h] \in ExecFailures =>
              /\ Len(Diags(pushed[h])) = 1
              /\ NonClose(pushed[h])
                    = (IF separate_output THEN <<>> ELSE Lines(h, nlines[h]))
                          \o Diags(pushed[h]) \o <<EndMarker(h)>>
              /\ Count(pushed[h], "out") = 0
        /\ pc[h] \in {"stream", "exit"} => pushed[h] = Lines(h, nlines[h])

IsContent(c) == c.kind \notin {"end", "close"}
ContentChunks(seq) == SelectSeq(seq, IsContent)

\* C16: in capture mode a host that has put its end-marker has put exactly
\* one chunk before it, its whole output or one diagnostic; on stdout no line
\* of anything else stands between two lines of the same chunk, in every
\* schedule.
C16_CaptureAtomicBlocks ==
    /\ \A h \in Hosts :
          Count(pushed[h], "end") > 0 =>
              /\ Len(ContentChunks(pushed[h])) = 1
              /\ NonClose(pushed[h])
                    = ContentChunks(pushed[h]) \o <<EndMarker(h)>>
              /\ ContentChunks(pushed[h])[1]
                    \in {Out(h), DiagExec(h), DiagConn(h)}
    /\ \A i \in 1..Len(screen) : \A k \in i..Len(screen) :
          screen[i].chunk = screen[k].chunk =>
              \A j \in i..k : screen[j].chunk = screen[i].chunk

\* C17: a step of execute(h) leaves the queue, the session and the colour
\* entry of every other host unchanged; the queue of h is written only by
\* execute(h) (a step of it, its finally when it is cancelled included) and by
\* main()'s close signal; the session of h changes only in execute(h); the
\* queue of h is read only by print_output(h).
C17_OwnTaskPairOnly ==
    [][\A h \in Hosts :
          /\ Runs("exec", h) =>
                \A g \in Hosts \ {h} :
                    /\ queue'[g] = queue[g]
                    /\ pushed'[g] = pushed[g]
                    /\ sess'[g] = sess[g]
                    /\ HOST_COLOR'[g] = HOST_COLOR[g]
          /\ pushed'[h] # pushed[h] =>
                \/ Runs("exec", h)
                \/ Runs("main", 0) /\ pushed'[h] = Append(pushed[h], Close)
          /\ sess'[h] # sess[h] => Runs("exec", h)
          /\ (printed'[h] # printed[h] \/ Len(queue'[h]) < Len(queue[h])) =>
                Runs("print", h)
          /\ queue'[h] # queue[h] => pushed'[h] # pushed[h] \/ Runs("print", h)
      ]_vars

C17_Witness ==
    /\ mainPc = "done"
    /\ ~separate_output
    /\ sess = [h \in Hosts |-> "open"]
    /\ \A h \in Hosts : Count(printed[h], "line") = 1 /\ ppc[h] = "stopped"
    /\ HOST_COLOR[1] # HOST_COLOR[2]

\* C18: the remote width is local_display_width - max_name_length - 3 clamped
\* from below: whatever the two widths, the width given to the remote side
\* and the length of the end-marker's line are at least a positive minimum.
C18_WidthClamped ==
    width_out.done =>
        /\ width_out.term_width >= 1
        /\ width_out.ending >= 1
        /\ (width_in.local_display_width - width_in.max_name_length - 3 >= 1) =>
              width_out.term_width
                  = width_in.local_display_width - width_in.max_name_length - 3

HasPrefix(t, p) == Len(t) >= Len(p) /\ SubSeq(t, 1, Len(p)) = p
\* what a printed line holds between the prompt and the final RESET
Content(t) == SubSeq(t, Len(text_in.prompt) + 1, Len(t) - 1)
Blank(t) == \A i \in 1..Len(t) : t[i] = " "
NotBlank(t) == ~Blank(t)
Occurrences(t, k) == Cardinality({i \in 1..Len(t) : t[i] = k})
Contents(lines) == [i \in 1..Len(lines) |-> Content(lines[i])]

\* C19: every line print_output prints starts with the prompt (and ends with
\* RESET); with allow_empty_line false no printed line has an empty or
\* all-blank rewritten content, and the printed lines are exactly the other
\* lines, in order; with allow_empty_line true every line of the item is
\* printed, blank or not, one per \r\n-separated piece.
C19_PromptAndBlankLines ==
    text_out.done =>
        /\ \A i \in 1..Len(text_out.printed) :
              /\ HasPrefix(text_out.printed[i], text_in.prompt)
              /\ text_out.printed[i][Len(text_out.printed[i])] = "RESET"
              /\ Len(text_out.printed[i]) > Len(text_in.prompt)
        /\ ~text_in.allow_empty_line =>
              /\ \A i \in 1..Len(text_out.printed) :
                    ~Blank(Content(text_out.printed[i]))
              /\ Contents(text_out.printed)
                    = SelectSeq(text_out.cleaned, NotBlank)
        /\ text_in.allow_empty_line =>
              /\ Contents(text_out.printed) = text_out.cleaned
              /\ Len(text_out.printed)
                    = 1 + Occurrences(text_in.output, "CRLF")
                        + Occurrences(text_in.output, "EL")

C19_Witness ==
    /\ text_out.done
    /\ ~text_in.allow_empty_line
    /\ text_in.output = <<" ", "CRLF", "a">>
    /\ text_out.printed = <<PromptText \o <<"a", "RESET">> >>

\* cursor-repositioning sequences and cursor-visibility toggles
CursorTokens == {"CNL", "CPL", "CUU", "HIDE", "SHOW"}
RECURSIVE Flat(_)
Flat(lines) == IF lines = <<>> THEN <<>> ELSE Head(lines) \o Flat(Tail(lines))

\* the rewriter stripped every cursor sequence of the item
StrippedAll ==
    \A k \in CursorTokens : Occurrences(Flat(text_out.cleaned), k) = 0
\* the rewriter kept every cursor sequence of the item
PreservedAll ==
    \A k \in CursorTokens :
        Occurrences(Flat(text_out.cleaned), k) = Occurrences(text_in.output, k)

\* C20: the rewritten lines of an item hold no cursor-repositioning and no
\* cursor-visibility sequence wherever these stood in the item (cursor control
\* not allowed), or hold all of them (cursor control allowed); colour
\* sequences are kept in both cases.
C20_CursorControlStripped ==
    text_out.done =>
        /\ StrippedAll \/ PreservedAll
        /\ Occurrences(Flat(text_out.cleaned), "SGR")
              = Occurrences(text_in.output, "SGR")

\* erase-in-line sequences: to the end of the line, and the entire line
EraseTokens == {"EL", "EL2"}
\* \x1b[s, \x1b[G, the prompt, \x1b[u
PromptRedraw == <<"SAVE", "HOME">> \o text_in.prompt \o <<"RESTORE">>

\* C21: the rewritten lines of an item keep every erase-in-line sequence of
\* the item, and each one is directly followed by cursor-save, the jump to
\* column 0, the prompt and cursor-restore.
C21_EraseFollowedByPrompt ==
    text_out.done =>
        /\ \A k \in EraseTokens :
              Occurrences(Flat(text_out.cleaned), k)
                  = Occurrences(text_in.output, k)
        /\ \A n \in 1..Len(text_out.cleaned) :
              LET line == text_out.cleaned[n] IN
              \A i \in 1..Len(line) :
                  line[i] \in EraseTokens =>
                      /\ Len(line) >= i + Len(PromptRedraw)
                      /\ SubSeq(line, i + 1, i + Len(PromptRedraw)) = PromptRedraw

\* a row that has the four required fields and a number for a port
WellFormedRow(row) == Len(row) >= 4 /\ IntOf(row[3]).ok
\* a row that begins with #
CommentRow(row) == row # <<>> /\ row[1] # <<>> /\ row[1][1] = "#"
\* the tags a colon- or comma-separated text names
TagSet(text, sep) == Elements(Split(text, sep)) \ {<<>>}
EligibleRow(row) ==
    /\ WellFormedRow(row)
    /\ ~CommentRow(row)
    /\ \/ ~hosts_in.host_tags.given
       \/ TagSet(RowTags(row), ":") \cap TagSet(hosts_in.host_tags.text, ",") # {}
Longest(lengths) ==
    IF lengths = {} THEN 0
    ELSE CHOOSE m \in lengths : \A n \in lengths : n <= m

\* C22: get_hosts returns, in file order, exactly the well-formed rows that
\* are not comments and have a tag in common with the filter (all of them
\* when no filter is given), and the maximum name length is that of the
\* returned hosts, 0 when there are none.
C22_SelectedInFileOrder ==
    hosts_out.done =>
        LET eligible == SelectSeq(hosts_in.rows, EligibleRow) IN
        /\ Len(hosts_out.hosts) = Len(eligible)
        /\ \A i \in 1..Len(eligible) :
              i <= Len(hosts_out.hosts)
                  /\ hosts_out.hosts[i] = HostTuple(eligible[i])
        /\ hosts_out.max_name_length
              = Longest({Len(hosts_out.hosts[i][1]) :
                            i \in 1..Len(hosts_out.hosts)})

\* a host row that cannot be parsed: fields are missing or the port is not
\* a number
MalformedRow(row) == row # <<>> /\ ~CommentRow(row) /\ ~WellFormedRow(row)
\* the 1-based number of the i-th row, blank lines not counted
RowNumber(i) == Cardinality({j \in 1..i : hosts_in.rows[j] # <<>>})
MalformedAt(i) == MalformedRow(hosts_in.rows[i])

\* C23: the diagnostics of a get_hosts call are, in file order, one for
\* every malformed host row, naming the host file and the row's number, and
\* there is none for a comment row or a blank row; the well-formed rows
\* after a malformed row are still read.
C23_OneDiagnosticPerMalformedRow ==
    hosts_out.done =>
        LET malformed ==
                SelectSeq([i \in 1..Len(hosts_in.rows) |-> i], MalformedAt)
        IN
        /\ Len(hosts_out.printed) = Len(malformed)
        /\ \A k \in 1..Len(malformed) :
              k <= Len(hosts_out.printed)
                  /\ hosts_out.printed[k]
                        = [file |-> hosts_in.host_file,
                           row |-> RowNumber(malformed[k])]
        /\ ~hosts_in.host_tags.given =>
              \A i \in 1..Len(hosts_in.rows) :
                  LET row == hosts_in.rows[i] IN
                  WellFormedRow(row) /\ ~CommentRow(row) =>
                      \E n \in 1..Len(hosts_out.hosts) :
                          hosts_out.hosts[n][1] = row[1]

\* every execute task has returned: it succeeded or it reported its failure
AllExecuted == \A h \in Hosts : pc[h] = "done"
\* the queue got None, the printer left its loop on it and the queue is empty
PrinterStopped(h) ==
    /\ \E i \in 1..Len(pushed[h]) : pushed[h][i].kind = "close"
    /\ ppc[h] = "stopped"
    /\ queue[h] = <<>>
RunComplete == loop = "closed" /\ \A h \in Hosts : PrinterStopped(h)

\* C24: once every host's execute task has returned, by success or by a
\* failure it handled, the run goes on until every queue has received None,
\* every printer has stopped with its queue empty and the loop is closed.
C24_AllExecutedLeadsToCompletion == AllExecuted ~> RunComplete
\* a run where one host failed to connect and the other ran its command has
\* completed with both printers stopped
C24_Witness ==
    /\ RunComplete
    /\ AllExecuted
    /\ fin[1] = "conn_failed"
    /\ fin[2] \in {"ok", "eof"}

====
